---- MODULE Spec2Model ----
(***************************************************************************)
(* Model of sequence_analyzer.py: the number selectors, the two weighted   *)
(* row generators and the row orchestrator generate_output_rows.           *)
(*                                                                         *)
(* Python values are tagged records (a field of a statistics record may be *)
(* an int, a string or absent); strings are tuples of one-character        *)
(* strings so that the regular expression of extract_days is computed.     *)
(* The weights given to random.choices are computed as IEEE-754 doubles,   *)
(* and the random module draws from a stream of generator words that is an *)
(* input of a run.                                                         *)
(***************************************************************************)
EXTENDS Integers, Sequences, FiniteSets, TLC

VARIABLES
  pc,                   \* where the running function is
  call,                 \* the arguments of a direct call of a selector or generator
  ret,                  \* the value returned
  stats,                \* generate_output_rows: the statistics mapping
  numbers_per_row,      \* generate_output_rows: its parameter
  most_common_all, most_overdue_all, least_common_all,
  rows,                 \* the rows accepted so far
  strategies,           \* history: the strategy that appended each entry of rows
  used_numbers_global,
  row3_candidates, temp_cands, temp_weights, selected,
  rng                   \* the random generator: its stream of words and the words taken

vars == <<pc, call, ret, stats, numbers_per_row, most_common_all, most_overdue_all,
          least_common_all, rows, strategies, used_numbers_global,
          row3_candidates, temp_cands, temp_weights, selected, rng>>

orchVars == <<stats, numbers_per_row, most_common_all, most_overdue_all,
              least_common_all, rows, strategies, used_numbers_global,
              row3_candidates, temp_cands, temp_weights, selected>>

(***************************************************************************)
(* Program constants (lines 19-27).  Weights are in tenths.                *)
(***************************************************************************)
NUMBERS_PER_ROW == 7
TOTAL_NUMBERS == 47
BASE_WEIGHT == 10
FREQUENCY_MULTIPLIER == 5
OVERDUE_BONUS == 100
NUM_OVERDUE_CONSIDERED == 10
\* max(0.1, weight) (line 487) and the weights of lines 571-573, in tenths.
MIN_WEIGHT == 1
OVERDUE_WEIGHT == 20
FREQ_WEIGHT == 2
BASE_MIN_WEIGHT == 1
\* Literals of generate_output_rows (lines 618, 691-693, 761, 763, 777).
fetch_count == 50
count1_r4 == 3
count2_r4 == 3
pool_size_r4 == 15
count_hot_r5 == 4
count_cold_r5 == 3
N_extremes == 15

(***************************************************************************)
(* Bounds of the checked inputs.                                           *)
(***************************************************************************)
MaxFreqRecs == 3
MaxColdRecs == 2
MaxCount == 3
MaxList == 2
MaxTake == 2
MaxStreams == 6
MaxCycle == 7
MaxTableRows == 2
MaxNumCells == 2

(***************************************************************************)
(* Generic helpers.                                                        *)
(***************************************************************************)
Min(a, b) == IF a < b THEN a ELSE b
Max(a, b) == IF a > b THEN a ELSE b
Range(s) == {s[i] : i \in 1..Len(s)}
SeqsUpTo(S, n) == UNION {[1..k -> S] : k \in 0..n}
NoRepeat(s) == \A i, j \in 1..Len(s) : i # j => s[i] # s[j]

\* The list a function on 1..n describes, element by element.
Listed(f) == SelectSeq(f, LAMBDA x : TRUE)

\* F of the value of x, which is computed once.
WithValue(x, F(_)) == CHOOSE r \in {F(v) : v \in {x}} : TRUE

\* The elements of seq at their first occurrence, in order.
Distinct(seq) ==
  LET firsts == SelectSeq([i \in 1..Len(seq) |-> i],
                          LAMBDA i : \A j \in 1..(i - 1) : seq[j] # seq[i])
  IN [k \in 1..Len(firsts) |-> seq[firsts[k]]]

\* seq[:n] of Python, for any integer n.
PySliceTo(seq, n) ==
  IF n >= 0 THEN SubSeq(seq, 1, Min(n, Len(seq)))
  ELSE SubSeq(seq, 1, Max(Len(seq) + n, 0))

\* seq[n:] of Python, for n >= 0.
PySliceFrom(seq, n) == SubSeq(seq, Min(n, Len(seq)) + 1, Len(seq))

\* k1 < k2 for keys that are pairs of integers.
KeyLess(k1, k2) == k1[1] < k2[1] \/ (k1[1] = k2[1] /\ k1[2] < k2[2])

\* sorted(seq, key=..., reverse=...) of Python, keys[i] being the key of
\* seq[i]: a stable sort, also when reversed.
PySorted(seq, keys, reverse) ==
  LET n == Len(seq)
      Before(i, j) == IF reverse THEN KeyLess(keys[j], keys[i]) ELSE KeyLess(keys[i], keys[j])
      \* the place of seq[i]: after every element that comes before it, and
      \* after the earlier elements of equal key
      place == Listed([i \in 1..n |->
                 1 + Cardinality({j \in 1..n : Before(j, i) \/ (~Before(i, j) /\ j < i)})])
  IN [k \in 1..n |-> seq[CHOOSE i \in 1..n : place[i] = k]]

\* sorted(S) for a collection of distinct integers.
SortedInts(S) ==
  IF S = {} THEN <<>>
  ELSE LET lo == CHOOSE x \in S : \A y \in S : x <= y
           hi == CHOOSE x \in S : \A y \in S : y <= x
       IN SelectSeq([i \in 1..(hi - lo + 1) |-> lo + i - 1], LAMBDA x : x \in S)

\* sorted(list) for a list of integers, repetitions kept.
SortedList(s) == PySorted(s, [i \in 1..Len(s) |-> <<s[i], 0>>], FALSE)

(***************************************************************************)
(* Python values and statistics records.                                   *)
(***************************************************************************)
IntV(n) == [t |-> "int", n |-> n, s |-> <<>>]
StrV(s) == [t |-> "str", n |-> 0, s |-> s]
Absent == [t |-> "none", n |-> 0, s |-> <<>>]
IsInt(v) == v.t = "int"
IsStr(v) == v.t = "str"
Truthy(v) == (v.t = "int" /\ v.n # 0) \/ (v.t = "str" /\ v.s # <<>>)

\* A parsed row: {'ball': ..., 'drawn': ..., 'last_drawn_info': ...}; a key
\* the parser did not set is Absent (dict.get gives None).
Rec(ball, drawn, info) == [ball |-> ball, drawn |-> drawn, last_drawn_info |-> info]

(***************************************************************************)
(* Texts of the 'last drawn' column.                                       *)
(***************************************************************************)
T_days_ago == <<" ", "d", "a", "y", "s", " ", "a", "g", "o">>
T_12_days_ago == <<"1", "2">> \o T_days_ago
T_1_day_ago == <<"1", " ", "d", "a", "y", " ", "a", "g", "o">>
T_yesterday == <<"y", "e", "s", "t", "e", "r", "d", "a", "y">>
T_12_Days_Ago == <<"1", "2", " ", "D", "a", "y", "s", " ", "A", "g", "o">>
T_12_DAYS_AGO == <<"1", "2", " ", "D", "A", "Y", "S", " ", "A", "G", "O">>
\* The control characters U+000B (VT) and U+001C to U+001F (FS, GS, RS, US),
\* for which a string has no escape.
VT == ""
FS == ""
GS == ""
RS == ""
US == ""
\* A carriage return, a VT and a separator between the number and the word.
T_12_ctl_days_ago == <<"1", "2", "\r", VT, FS, "d", "a", "y", "s", " ", "a", "g", "o">>

(***************************************************************************)
(* re.search(r'(\d+)\s+days? ago', info_str)                               *)
(***************************************************************************)
IsDigit(c) == c \in {"0", "1", "2", "3", "4", "5", "6", "7", "8", "9"}
\* \s of the pattern (a str pattern), which is also what str.strip() takes
\* off: blank, TAB, LF, VT, FF, CR and the separators U+001C to U+001F.  The
\* white space and the digits outside ASCII are no characters of the texts
\* here.
IsSpace(c) == c \in {" ", "\t", "\n", "\r", "\f", VT, FS, GS, RS, US}
DigitVal(c) ==
  CASE c = "0" -> 0 [] c = "1" -> 1 [] c = "2" -> 2 [] c = "3" -> 3
    [] c = "4" -> 4 [] c = "5" -> 5 [] c = "6" -> 6 [] c = "7" -> 7
    [] c = "8" -> 8 [] c = "9" -> 9

\* int() of a run of digits.
ParseInt(ds) ==
  LET f[i \in 0..Len(ds)] == IF i = 0 THEN 0 ELSE 10 * f[i - 1] + DigitVal(ds[i])
  IN f[Len(ds)]

HasPrefix(s, p) == Len(s) >= Len(p) /\ SubSeq(s, 1, Len(p)) = p

\* Last index of the maximal run of digits (class "d") or of white space
\* (class "s") that starts at i; i - 1 when s[i] is not of the class.
RunEnd(s, i, class) ==
  LET stop == {j \in i..Len(s) : IF class = "d" THEN ~IsDigit(s[j]) ELSE ~IsSpace(s[j])}
  IN IF stop = {} THEN Len(s)
     ELSE (CHOOSE j \in stop : \A k \in stop : j <= k) - 1

\* The match of the pattern that starts at index i, if there is one: \d+ and
\* \s+ are greedy and what follows each cannot match its own class, so each
\* takes its whole run.
MatchAt(s, i) ==
  LET j == RunEnd(s, i, "d")
      k == RunEnd(s, j + 1, "s")
      rest == SubSeq(s, k + 1, Len(s))
  IN [ok |-> /\ j >= i
             /\ k >= j + 1
             /\ \/ HasPrefix(rest, <<"d", "a", "y", "s", " ", "a", "g", "o">>)
                \/ HasPrefix(rest, <<"d", "a", "y", " ", "a", "g", "o">>),
      group1 |-> SubSeq(s, i, j)]

\* re.search: the leftmost match; ok = FALSE stands for None.
ReSearchDays(s) ==
  LET starts == {i \in 1..Len(s) : MatchAt(s, i).ok}
  IN IF starts = {} THEN [ok |-> FALSE, group1 |-> <<>>]
     ELSE MatchAt(s, CHOOSE i \in starts : \A k \in starts : i <= k)

(***************************************************************************)
(* get_numbers_by_frequency (lines 341-350)                                *)
(***************************************************************************)
\* key=lambda x: (x['drawn'], x['ball'])
FreqKey(x) == <<x.drawn.n, x.ball.n>>
FreqKeys(data) == Listed([i \in 1..Len(data) |-> FreqKey(data[i])])
FreqKeyLess(x, y) == KeyLess(FreqKey(x), FreqKey(y))

FreqValid(data) == SelectSeq(data, LAMBDA item : IsInt(item.drawn) /\ IsInt(item.ball))

\* Mutant: ties on the drawn count go to the lower ball number also when the
\* highest counts are asked for.
get_numbers_by_frequency_lowball(numerical_data, count, highest) ==
  LET valid_data == FreqValid(numerical_data)
      sorted_data ==
        IF highest
        THEN PySorted(valid_data,
                      [i \in 1..Len(valid_data) |->
                         <<0 - valid_data[i].drawn.n, valid_data[i].ball.n>>], FALSE)
        ELSE PySorted(valid_data, FreqKeys(valid_data), FALSE)
      top == PySliceTo(sorted_data, count)
  IN [i \in 1..Len(top) |-> top[i].ball.n]

get_numbers_by_frequency(numerical_data, count, highest) ==
  LET valid_data == FreqValid(numerical_data)
      sorted_data == PySorted(valid_data, FreqKeys(valid_data), highest)
      top == PySliceTo(sorted_data, count)
  IN IF valid_data = <<>> THEN <<>>
     ELSE [i \in 1..Len(top) |-> top[i].ball.n]

(***************************************************************************)
(* get_numbers_by_overdue (lines 352-394)                                  *)
(***************************************************************************)
\* Mutant: text without a match counts as 0 days, as in the second generator.
overdue_extract_days_zero(info_str) ==
  IF ~IsStr(info_str) THEN 9999
  ELSE LET match == ReSearchDays(info_str.s)
       IN IF match.ok THEN ParseInt(match.group1) ELSE 0

\* extract_days of get_numbers_by_overdue (lines 355-363)
overdue_extract_days(info_str) ==
  IF ~IsStr(info_str) THEN 9999
  ELSE LET match == ReSearchDays(info_str.s)
       IN IF match.ok THEN ParseInt(match.group1) ELSE 9999

\* The days_ago entry of one item with an integer ball (lines 369-374).
overdue_days_ago(item) ==
  IF Truthy(item.last_drawn_info) THEN overdue_extract_days(item.last_drawn_info)
  ELSE 0

\* valid_data of get_numbers_by_overdue (lines 365-374).
OverdueValid(cold_data) ==
  LET ints == SelectSeq(cold_data, LAMBDA item : IsInt(item.ball))
  IN [i \in 1..Len(ints) |-> [ball |-> ints[i].ball.n, days_ago |-> overdue_days_ago(ints[i])]]

\* The loop of lines 385-392: unique balls in order, leaving the loop when
\* the list has just reached count entries (which, tested after an append,
\* never happens for count < 1).
UniqueBalls(sorted_data, count) ==
  LET unique_balls == Distinct([i \in 1..Len(sorted_data) |-> sorted_data[i].ball])
  IN IF count >= 1 THEN SubSeq(unique_balls, 1, Min(count, Len(unique_balls)))
     ELSE unique_balls

get_numbers_by_overdue(cold_data, count) ==
  LET valid_data == OverdueValid(cold_data)
      \* key=lambda x: (x['days_ago'], x['ball']), reverse=True
      keys == Listed([i \in 1..Len(valid_data) |->
                        <<valid_data[i].days_ago, valid_data[i].ball>>])
      sorted_data == PySorted(valid_data, keys, TRUE)
  IN IF valid_data = <<>> THEN <<>> ELSE UniqueBalls(sorted_data, count)

(***************************************************************************)
(* get_numbers_by_least_frequent (lines 397-407)                           *)
(***************************************************************************)
get_numbers_by_least_frequent(least_frequent_data, count) ==
  LET valid_data == FreqValid(least_frequent_data)
      sorted_data == PySorted(valid_data, FreqKeys(valid_data), FALSE)
      top == PySliceTo(sorted_data, count)
  IN IF valid_data = <<>> THEN <<>>
     ELSE [i \in 1..Len(top) |-> top[i].ball.n]

(***************************************************************************)
(* select_unique_combination (lines 410-455)                               *)
(***************************************************************************)
\* while added_count < count1 and idx1 < len(pool1)   (lines 417-424)
RECURSIVE TakeFirst(_, _, _, _, _)
TakeFirst(pool1, count1, idx1, added_count, sel) ==
  IF added_count < count1 /\ idx1 < Len(pool1)
  THEN LET num == pool1[idx1 + 1]
       IN IF num \notin Range(sel)
          THEN TakeFirst(pool1, count1, idx1 + 1, added_count + 1, Append(sel, num))
          ELSE TakeFirst(pool1, count1, idx1 + 1, added_count, sel)
  ELSE [selected |-> sel, idx |-> idx1]

\* while len(selected) < total_needed and added_count < count2 and
\* idx2 < len(pool2)   (lines 427-436)
RECURSIVE TakeSecond(_, _, _, _, _, _)
TakeSecond(pool2, count2, total_needed, idx2, added_count, sel) ==
  IF Len(sel) < total_needed /\ added_count < count2 /\ idx2 < Len(pool2)
  THEN LET num == pool2[idx2 + 1]
       IN IF num \notin Range(sel)
          THEN TakeSecond(pool2, count2, total_needed, idx2 + 1, added_count + 1,
                          Append(sel, num))
          ELSE TakeSecond(pool2, count2, total_needed, idx2 + 1, added_count, sel)
  ELSE [selected |-> sel, idx |-> idx2]

\* Mutant: a number that is already chosen ends the fill.
RECURSIVE FillFrom_stop(_, _, _, _)
FillFrom_stop(pool, total_needed, idx, sel) ==
  IF Len(sel) < total_needed /\ idx < Len(pool)
  THEN LET num == pool[idx + 1]
       IN IF num \notin Range(sel)
          THEN FillFrom_stop(pool, total_needed, idx + 1, Append(sel, num))
          ELSE [selected |-> sel, idx |-> idx]
  ELSE [selected |-> sel, idx |-> idx]

\* while len(selected) < total_needed and idx < len(pool)
\* (lines 440-444 and 447-451)
RECURSIVE FillFrom(_, _, _, _)
FillFrom(pool, total_needed, idx, sel) ==
  IF Len(sel) < total_needed /\ idx < Len(pool)
  THEN LET num == pool[idx + 1]
       IN IF num \notin Range(sel)
          THEN FillFrom(pool, total_needed, idx + 1, Append(sel, num))
          ELSE FillFrom(pool, total_needed, idx + 1, sel)
  ELSE [selected |-> sel, idx |-> idx]

\* The list selected when line 455 is reached.
select_unique_selected(list1, count1, list2, count2, total_needed) ==
  LET p1 == TakeFirst(list1, count1, 0, 0, <<>>)
      p2 == TakeSecond(list2, count2, total_needed, 0, 0, p1.selected)
      p3 == FillFrom(list1, total_needed, p1.idx, p2.selected)
      p4 == FillFrom(list2, total_needed, p2.idx, p3.selected)
  IN p4.selected

\* Mutant: the final slice [:total_needed] is left out.
select_unique_sets_noslice(list1, count1, list2, count2, total_needed) ==
  {Range(select_unique_selected(list1, count1, list2, count2, total_needed))}

\* The sets of numbers list(set(selected))[:total_needed] can hold (line 455).
\* The order in which a set is listed is the hash table's; every choice of
\* the numbers that survive the slice is kept.
select_unique_sets(list1, count1, list2, count2, total_needed) ==
  LET S == Range(select_unique_selected(list1, count1, list2, count2, total_needed))
      n == IF total_needed >= 0 THEN Min(total_needed, Cardinality(S))
           ELSE Max(Cardinality(S) + total_needed, 0)
  IN {T \in SUBSET S : Cardinality(T) = n}

\* All lists that hold the elements of S once each.
Orderings(S) ==
  {p \in [1..Cardinality(S) -> S] : \A i, j \in 1..Cardinality(S) : i # j => p[i] # p[j]}

\* The lists select_unique_combination can return.
select_unique_combination(list1, count1, list2, count2, total_needed) ==
  UNION {Orderings(T) : T \in select_unique_sets(list1, count1, list2, count2, total_needed)}

(***************************************************************************)
(* Python floats.  A float is an IEEE-754 binary64 number; here it is a    *)
(* sign and the set of the binary positions that hold a 1 (position p      *)
(* stands for 2^p), so that sums, products and quotients are computed      *)
(* exactly and then rounded to 53 significant bits, to nearest, ties to    *)
(* even, as the machine does.  Magnitudes stay far from overflow and from  *)
(* the subnormal range; a divisor is below 2^23 in magnitude.              *)
(***************************************************************************)
Lowest(S) == CHOOSE x \in S : \A y \in S : x <= y
Highest(S) == 0 - Lowest({0 - x : x \in S})
Abs(n) == IF n < 0 THEN 0 - n ELSE n

\* The positions of the ones of a natural number below 2^31.
NatBits(n) == {i \in 0..30 : (n \div (2 ^ i)) % 2 = 1}
\* A * 2^s
ShiftBits(A, s) == {i + s : i \in A}

\* The number whose digits in base 2^16, from position L on, are the list
\* v with a carry added at the lowest; a digit may exceed the base or be
\* below zero.  The lower half of the digits is settled before the upper,
\* which takes its carry.
RECURSIVE LimbsBits(_, _, _)
LimbsBits(v, L, carry) ==
  IF Len(v) = 1
  THEN LET t == v[1] + carry
       IN [bits |-> ShiftBits(NatBits(t % 65536), 16 * L), carry |-> t \div 65536]
  ELSE LET h == Len(v) \div 2
           low == LimbsBits(SubSeq(v, 1, h), L, carry)
           high == LimbsBits(SubSeq(v, h + 1, Len(v)), L + h, low.carry)
       IN [bits |-> low.bits \cup high.bits, carry |-> high.carry]

\* count[p] + 2 * count[p + 1] + ... over n positions from p on (n a power
\* of two), one half after the other.
RECURSIVE LimbOf(_, _, _)
LimbOf(count, p, n) ==
  IF n = 1 THEN count[p]
  ELSE LimbOf(count, p, n \div 2) + (2 ^ (n \div 2)) * LimbOf(count, p + n \div 2, n \div 2)

\* The positions of the digits in base 2^16 that hold the positions lo..hi.
Columns(lo, hi) == (16 * (lo \div 16))..(16 * (hi \div 16) + 15)

\* The number that is the sum of count[p] * 2^p over the positions lo..hi,
\* count being defined on Columns(lo, hi).
ColumnsBits(count, lo, hi) ==
  LET first == lo \div 16
      last == hi \div 16
      sum == LimbsBits([k \in 1..(last - first + 1) |-> LimbOf(count, 16 * (first + k - 1), 16)],
                       first, 0)
  IN sum.bits \cup ShiftBits(NatBits(sum.carry), 16 * (last + 1))

\* The positions lo..hi of the ones of A and B together.
Span(A, B) == [lo |-> Lowest(A \cup B), hi |-> Highest(A \cup B)]

\* A + B and A - B (for A >= B)
AddBits(A, B) ==
  IF A = {} THEN B ELSE IF B = {} THEN A
  ELSE ColumnsBits([p \in Columns(Span(A, B).lo, Span(A, B).hi) |->
                      (IF p \in A THEN 1 ELSE 0) + (IF p \in B THEN 1 ELSE 0)],
                   Span(A, B).lo, Span(A, B).hi)
SubBits(A, B) ==
  IF B = {} THEN A
  ELSE ColumnsBits([p \in Columns(Span(A, B).lo, Span(A, B).hi) |->
                      (IF p \in A THEN 1 ELSE 0) - (IF p \in B THEN 1 ELSE 0)],
                   Span(A, B).lo, Span(A, B).hi)
\* The digit of A in base 2^8 at the digit position k.
DigitOf(A, k) == LimbOf([p \in (8 * k)..(8 * k + 7) |-> IF p \in A THEN 1 ELSE 0], 8 * k, 8)

\* a[k] * b[m + 2 - k] summed over k of lo..hi
RECURSIVE SumProducts(_, _, _, _, _)
SumProducts(a, b, m, lo, hi) ==
  IF lo > hi THEN 0 ELSE a[lo] * b[m + 2 - lo] + SumProducts(a, b, m, lo + 1, hi)

\* The digit m (m = 0 for the lowest) of the product of the digit lists a
\* and b before the carries are taken.
ColumnOf(a, b, m) == SumProducts(a, b, m, Max(1, m + 2 - Len(b)), Min(Len(a), m + 1))

\* A * B, by the digits of A and B in base 2^8; two digits of the product
\* make one in base 2^16.
MulBits(A, B) ==
  IF A = {} \/ B = {} THEN {}
  ELSE WithValue(<<Lowest(A) \div 8, Highest(A) \div 8, Lowest(B) \div 8, Highest(B) \div 8>>,
                 LAMBDA at :
         WithValue(<<Listed([k \in 1..(at[2] - at[1] + 1) |-> DigitOf(A, at[1] + k - 1)]),
                     Listed([k \in 1..(at[4] - at[3] + 1) |-> DigitOf(B, at[3] + k - 1)]),
                     (at[1] + at[3]) \div 2, (at[2] + at[4]) \div 2>>,
                   LAMBDA d :
           WithValue(LimbsBits([n \in 1..(d[4] - d[3] + 1) |->
                                  ColumnOf(d[1], d[2], 2 * (d[3] + n - 1) - at[1] - at[3])
                                    + 256 * ColumnOf(d[1], d[2], 2 * (d[3] + n - 1) + 1 - at[1] - at[3])],
                               d[3], 0),
                     LAMBDA sum :
             sum.bits \cup ShiftBits(NatBits(sum.carry), 16 * (d[4] + 1)))))
\* A < B
LessBits(A, B) == A # B /\ Highest((A \ B) \cup (B \ A)) \in B

\* Rounding to 53 significant bits, to nearest, ties to even.
RoundBits(A) ==
  IF A = {} THEN {}
  ELSE LET low == Highest(A) - 52
           kept == {i \in A : i >= low}
       IN IF (low - 1) \in A /\ (low \in A \/ \E i \in A : i < low - 1)
          THEN AddBits(kept, {low}) ELSE kept

Float(neg, bits) == [neg |-> neg /\ bits # {}, bits |-> bits]
\* float(n) of an int below 2^31 in magnitude
FloatOfInt(n) == Float(n < 0, NatBits(Abs(n)))

\* The binary digits of r / b (0 <= r < b) after the point at the positions
\* -(k + 1) down to -(k + 8 * n), in n groups of eight, and the remainder
\* they leave.
RECURSIVE FracBits(_, _, _, _)
FracBits(r, b, k, n) ==
  IF n = 1
  THEN [bits |-> ShiftBits(NatBits((r * 256) \div b), 0 - k - 8), r |-> (r * 256) % b]
  ELSE LET h == n \div 2
           first == FracBits(r, b, k, h)
           rest == FracBits(first.r, b, k + 8 * h, n - h)
       IN [bits |-> first.bits \cup rest.bits, r |-> rest.r]

\* n / m of two ints: the quotient, correctly rounded.  Ninety-six digits
\* after the point are computed; a remainder left after them counts as one
\* more 1 below, which rounds as the rest of the expansion does.
TrueDiv(n, m) ==
  LET frac == FracBits(Abs(n) % Abs(m), Abs(m), 0, 12)
  IN Float((n < 0) # (m < 0),
           RoundBits(NatBits(Abs(n) \div Abs(m)) \cup frac.bits
                       \cup (IF frac.r # 0 THEN {0 - 97} ELSE {})))

\* x + y, x * y and x < y of two floats
FAdd(x, y) ==
  IF x.neg = y.neg THEN Float(x.neg, RoundBits(AddBits(x.bits, y.bits)))
  ELSE Float(IF LessBits(x.bits, y.bits) THEN y.neg ELSE x.neg,
             RoundBits(IF LessBits(x.bits, y.bits) THEN SubBits(y.bits, x.bits)
                       ELSE SubBits(x.bits, y.bits)))
FMul(x, y) == Float(x.neg # y.neg, RoundBits(MulBits(x.bits, y.bits)))
FLess(x, y) ==
  IF x.neg # y.neg THEN x.neg
  ELSE IF x.neg THEN LessBits(y.bits, x.bits) ELSE LessBits(x.bits, y.bits)

\* itertools.accumulate(weights) of a list of floats
\* The running sums of ws after the sum start, the first half of ws before
\* the second.
RECURSIVE AccumulateFrom(_, _)
AccumulateFrom(start, ws) ==
  IF Len(ws) = 1 THEN <<FAdd(start, ws[1])>>
  ELSE LET h == Len(ws) \div 2
           first == AccumulateFrom(start, SubSeq(ws, 1, h))
       IN first \o AccumulateFrom(first[h], SubSeq(ws, h + 1, Len(ws)))

Accumulate(ws) ==
  IF Len(ws) <= 1 THEN ws ELSE <<ws[1]>> \o AccumulateFrom(ws[1], Tail(ws))

(***************************************************************************)
(* The random module (CPython 3.11).  Its generator is the Mersenne        *)
(* Twister, read here as the stream of the 32-bit words it gives: random() *)
(* and getrandbits() take words from the stream, and random.sample and     *)
(* random.choices are the library's code on top of them.  A word is its    *)
(* upper and its lower 16 bits.  Every list of up to 623 words is given by *)
(* some state of the generator, and a run takes fewer words than that.     *)
(***************************************************************************)
\* Word t (t = 0, 1, ...) of a stream [first, step, period, head, tail]: the
\* upper half of each of the first head words runs from first in steps of
\* step and starts again after period words; the upper half of a later word
\* is first + tail * t.  The lower half is the complement of the upper one.
Word(stream, t) ==
  LET hi == (stream.first + (IF t < stream.head THEN stream.step * (t % stream.period)
                             ELSE stream.tail * t)) % 65536
  IN [hi |-> hi, lo |-> 65535 - hi]

\* The generator: a stream and the number of words taken from it.
Rng(stream) == [stream |-> stream, at |-> 0]
Skip(gen, n) == [stream |-> gen.stream, at |-> gen.at + n]

\* getrandbits(k) for 1 <= k <= 31: the k upper bits of the next word.
GetRandBits(gen, k) ==
  LET w == Word(gen.stream, gen.at)
  IN IF k <= 16 THEN w.hi \div (2 ^ (16 - k))
     ELSE w.hi * (2 ^ (k - 16)) + w.lo \div (2 ^ (32 - k))

\* random() is j / 2^53 with j = (a >> 5) * 2^26 + (b >> 6) for the next two
\* words a and b; this is j, as the positions of its ones.
RandomBits(gen) ==
  LET a == Word(gen.stream, gen.at)
      b == Word(gen.stream, gen.at + 1)
  IN ShiftBits(NatBits(a.hi * 2048 + a.lo \div 32), 26)
       \cup NatBits(b.hi * 1024 + b.lo \div 64)

\* n.bit_length()
BitLength(n) == Cardinality({k \in 0..30 : 2 ^ k <= n})

\* _randbelow(n) for n > 0: getrandbits(n.bit_length()) until the value is
\* below n.
RECURSIVE RandBelow(_, _)
RandBelow(gen, n) ==
  IF GetRandBits(gen, BitLength(n)) < n
  THEN [value |-> GetRandBits(gen, BitLength(n)), rng |-> Skip(gen, 1)]
  ELSE RandBelow(Skip(gen, 1), n)

\* random.sample(population, k) raises ValueError.
SampleRaises(population, k) == k < 0 \/ k > Len(population)

\* setsize of random.sample: 21, and for k > 5 also 4 ** ceil(log(k * 3, 4)).
SampleSetSize(k) ==
  IF k <= 5 THEN 21
  ELSE 21 + 4 ^ Cardinality({e \in 0..14 : 4 ^ e < k * 3})

\* The loop of random.sample over a pool (n <= setsize), from pass i on:
\* j = randbelow(n - i); result[i] = pool[j]; pool[j] = pool[n - i - 1]
RECURSIVE SamplePool(_, _, _, _, _)
SamplePool(gen, pool, k, i, result) ==
  IF i >= k THEN [value |-> result, rng |-> gen]
  ELSE WithValue(RandBelow(gen, Len(pool) - i), LAMBDA j :
         SamplePool(j.rng, [pool EXCEPT ![j.value + 1] = pool[Len(pool) - i]], k, i + 1,
                    Append(result, pool[j.value + 1])))

\* j = randbelow(n); while j in selected: j = randbelow(n)
RECURSIVE RandBelowUnselected(_, _, _)
RandBelowUnselected(gen, n, sel) ==
  WithValue(RandBelow(gen, n), LAMBDA j :
    IF j.value \in sel THEN RandBelowUnselected(j.rng, n, sel) ELSE j)

\* The loop of random.sample with a set of the positions selected
\* (n > setsize), from pass i on.
RECURSIVE SampleSelected(_, _, _, _, _, _)
SampleSelected(gen, population, k, i, sel, result) ==
  IF i >= k THEN [value |-> result, rng |-> gen]
  ELSE WithValue(RandBelowUnselected(gen, Len(population), sel), LAMBDA j :
         SampleSelected(j.rng, population, k, i + 1, sel \cup {j.value},
                        Append(result, population[j.value + 1])))

\* random.sample(population, k) when it does not raise: the list drawn and
\* the generator after it.
RandomSample(gen, population, k) ==
  IF Len(population) <= SampleSetSize(k)
  THEN SamplePool(gen, population, k, 0, <<>>)
  ELSE SampleSelected(gen, population, k, 0, {}, <<>>)

\* The sum of a list of ints, one half after the other.
RECURSIVE SumInts(_)
SumInts(ws) ==
  IF Len(ws) = 0 THEN 0
  ELSE IF Len(ws) = 1 THEN ws[1].n
  ELSE SumInts(SubSeq(ws, 1, Len(ws) \div 2))
         + SumInts(SubSeq(ws, Len(ws) \div 2 + 1, Len(ws)))

\* random.choices(population, weights=weights, k=k) raises (Python 3.9 and
\* later): a weight that is no number (TypeError), lists of different
\* length or a total that is not positive (ValueError), nothing to index
\* (IndexError).
ChoicesRaises(population, weights) ==
  \/ \E i \in 1..Len(weights) : ~IsInt(weights[i])
  \/ Len(weights) # Len(population)
  \/ weights = <<>>
  \/ SumInts(weights) <= 0

\* "if total <= 0.0: raise ValueError" of random.choices, total being the
\* last of the cumulative weights.
TotalRaises(cum_weights) ==
  cum_weights[Len(cum_weights)].neg \/ cum_weights[Len(cum_weights)].bits = {}

\* random() * total
RandomTimes(j, total) == Float(FALSE, RoundBits(ShiftBits(MulBits(total, j), 0 - 53)))

\* bisect(a, x, lo, hi) (bisect_right): the loop
\* "mid = (lo + hi) // 2; if x < a[mid]: hi = mid else: lo = mid + 1".
\* Indices count from 0.
RECURSIVE Bisect(_, _, _, _)
Bisect(a, x, lo, hi) ==
  IF lo >= hi THEN lo
  ELSE IF FLess(x, a[(lo + hi) \div 2 + 1]) THEN Bisect(a, x, lo, (lo + hi) \div 2)
       ELSE Bisect(a, x, (lo + hi) \div 2 + 1, hi)

\* The list comprehension of random.choices:
\* [population[bisect(cum_weights, random() * total, 0, n - 1)] for k times]
\* with cum_weights a list of floats whose last is above zero.
ChoicesByCum(gen, population, cum_weights, k) ==
  WithValue(cum_weights, LAMBDA cum :
    [value |-> Listed([i \in 1..Max(k, 0) |->
                         population[Bisect(cum,
                                           RandomTimes(RandomBits(Skip(gen, 2 * (i - 1))),
                                                       cum[Len(cum)].bits),
                                           0, Len(cum) - 1) + 1]]),
     rng |-> Skip(gen, 2 * Max(k, 0))])

\* list(accumulate(weights)) of int weights; a comparison of a float with
\* an int is exact, as is the one with the int as a float.
IntCumWeights(weights) ==
  Listed([i \in 1..Len(weights) |-> FloatOfInt(SumInts(SubSeq(weights, 1, i)))])

\* random.choices(population, weights=weights, k=k) of int weights that do
\* not raise.
RandomChoices(gen, population, weights, k) ==
  ChoicesByCum(gen, population, IntCumWeights(weights), k)

\* list(range(1, TOTAL_NUMBERS + 1))
all_balls == [i \in 1..TOTAL_NUMBERS |-> i]

\* list(set(range(1, TOTAL_NUMBERS + 1)) - other): the numbers in the order
\* of the slots of the hash table of the difference.  The hash of a small
\* int is the int.  A key goes to the first free slot among slot i = key &
\* mask and, when they exist, the nine after it, then the same from
\* i = (5 * i + 1 + perturb) & mask with perturb = key >> 5, >> 10, ...
RECURSIVE SetSlot(_, _, _, _)
SetSlot(table, mask, i, perturb) ==
  LET free == {s \in (IF i + 9 <= mask THEN i..(i + 9) ELSE {i}) : table[s + 1] = 0}
  IN IF free # {} THEN Lowest(free)
     ELSE SetSlot(table, mask, (5 * i + 1 + perturb \div 32) % (mask + 1), perturb \div 32)

SetInsert(table, key) ==
  [table EXCEPT ![SetSlot(table, Len(table) - 1, key % Len(table), key) + 1] = key]

\* The keys of a list put into a table one after the other, the first half
\* before the second.
RECURSIVE SetInsertAll(_, _)
SetInsertAll(table, keys) ==
  IF Len(keys) = 0 THEN table
  ELSE IF Len(keys) = 1 THEN SetInsert(table, keys[1])
  ELSE SetInsertAll(SetInsertAll(table, SubSeq(keys, 1, Len(keys) \div 2)),
                    SubSeq(keys, Len(keys) \div 2 + 1, Len(keys)))

SetTableKeys(table) == SelectSeq(table, LAMBDA key : key # 0)
SetEmptyTable(size) == [s \in 1..size |-> 0]

\* A set of fewer than a quarter of the 47 numbers is taken from a copy of
\* the whole set, whose table has 128 slots.  Otherwise the numbers left
\* are added in ascending order to a table of 8 slots, which is rebuilt
\* with 32 slots at the fifth and with 128 at the nineteenth number.
SetDifferenceList(other_size, other) ==
  WithValue(SelectSeq(all_balls, LAMBDA n : n \notin other), LAMBDA left :
    IF TOTAL_NUMBERS \div 4 > other_size \/ Len(left) >= 19 THEN left
    ELSE IF Len(left) < 5 THEN SetTableKeys(SetInsertAll(SetEmptyTable(8), left))
    ELSE SetTableKeys(
           SetInsertAll(
             SetInsertAll(SetEmptyTable(32),
                          SetTableKeys(SetInsertAll(SetEmptyTable(8), SubSeq(left, 1, 5)))),
             SubSeq(left, 6, Len(left)))))

(***************************************************************************)
(* Statistics given to the generators and to generate_output_rows.         *)
(***************************************************************************)
DigitChar(d) ==
  CASE d = 0 -> "0" [] d = 1 -> "1" [] d = 2 -> "2" [] d = 3 -> "3" [] d = 4 -> "4"
    [] d = 5 -> "5" [] d = 6 -> "6" [] d = 7 -> "7" [] d = 8 -> "8" [] d = 9 -> "9"

RECURSIVE ToDigits(_)
ToDigits(n) == IF n < 10 THEN <<DigitChar(n)>> ELSE ToDigits(n \div 10) \o <<DigitChar(n % 10)>>

\* "<n> days ago"
DaysText(n) == StrV(ToDigits(n) \o T_days_ago)

\* The drawn count and the days since the last draw the inputs give ball i:
\* counts rise with the ball number, in ties of two; balls 16..30 are the
\* most overdue.
DrawnOf(i) == 100 + (i \div 2)
DaysOf(i) == IF i \in 16..30 THEN 60 + i ELSE (i % 5) * 7

NumFull == [i \in 1..TOTAL_NUMBERS |-> Rec(IntV(i), IntV(DrawnOf(i)), Absent)]
NumSeven == SubSeq(NumFull, 1, NUMBERS_PER_ROW)
NumSix == SubSeq(NumFull, 1, NUMBERS_PER_ROW - 1)
NumDup == NumFull \o <<Rec(IntV(TOTAL_NUMBERS), IntV(DrawnOf(TOTAL_NUMBERS) + 1), Absent)>>
NumOut == NumFull \o <<Rec(IntV(TOTAL_NUMBERS + 1), IntV(DrawnOf(TOTAL_NUMBERS) - 2), Absent)>>
NumStr == NumFull \o <<Rec(IntV(TOTAL_NUMBERS), StrV(<<"1", "x">>), Absent)>>
NumZero == [i \in 1..TOTAL_NUMBERS |-> Rec(IntV(i), IntV(0), Absent)]
\* Counts below zero, as int() accepts them: the weights of rows 2 and 3 sum
\* to less than zero.
NumNeg == [i \in 1..TOTAL_NUMBERS |-> Rec(IntV(i), IntV(IF i = 1 THEN 5 ELSE 0 - 100), Absent)]

\* Weights of row 2 that cancel: 2.0 * (1/4) + 0.2 * (-37/1) + 0.1 and
\* 2.0 * (4/4) + 0.2 * (1/1) + 0.1 and forty-five times 0.1 sum to zero as
\* numbers and to 6.4e-16 as floats.
NumCancel == <<Rec(IntV(1), IntV(1), Absent), Rec(IntV(2), IntV(0 - 37), Absent)>>
ColdCancel == <<Rec(IntV(3), Absent, DaysText(1)), Rec(IntV(4), Absent, DaysText(4))>>

ColdFull == [i \in 1..TOTAL_NUMBERS |-> Rec(IntV(i), Absent, DaysText(DaysOf(i)))]
ColdTen == [i \in 1..10 |-> Rec(IntV(31 - i), Absent, DaysText(DaysOf(31 - i)))]
ColdFive == SubSeq(ColdTen, 1, 5)
ColdOdd == <<Rec(IntV(3), Absent, StrV(T_yesterday)), Rec(IntV(4), Absent, StrV(<<>>)),
             Rec(IntV(3), Absent, StrV(T_12_days_ago)), Rec(StrV(<<"x">>), Absent, StrV(T_1_day_ago))>>
               \o ColdFive

LeastFull == [i \in 1..TOTAL_NUMBERS |-> Rec(IntV(i), IntV(DrawnOf(i)), DaysText(DaysOf(i)))]
LeastTen == SubSeq(LeastFull, 1, 10)

\* The streams of words given to the generator.  The upper halves of a
\* spread stream run through the 2^16 values in steps of an odd number.  A
\* cycle stream gives the 21 draws of a weighted generator u values of
\* random(), spread evenly, and goes on as a spread stream.  A replay stream
\* gives the 21 draws of the second weighted generator the words of the
\* first, and goes on as a spread stream.  The low stream gives the 21 draws
\* seven values of random() a tenth apart, from 0.03 on: a weighted
\* generator then takes the balls the weights favour.
SpreadStep(i) == 20251 + 2000 * i
SpreadStream(i) ==
  [first |-> (i * 9973) % 65536, step |-> 0, period |-> 1, head |-> 0, tail |-> SpreadStep(i)]
CycleStream(u) ==
  [first |-> 3000 * u, step |-> 32768 \div u, period |-> 2 * u,
   head |-> 2 * 3 * NUMBERS_PER_ROW, tail |-> SpreadStep(0)]
ReplayStream(i) ==
  [first |-> (i * 9973) % 65536, step |-> SpreadStep(i), period |-> 2 * 3 * NUMBERS_PER_ROW,
   head |-> 4 * 3 * NUMBERS_PER_ROW, tail |-> SpreadStep(i)]
LowStream ==
  [first |-> 2000, step |-> 3277, period |-> 2 * NUMBERS_PER_ROW,
   head |-> 2 * 3 * NUMBERS_PER_ROW, tail |-> SpreadStep(0)]
Streams ==
  {SpreadStream(i) : i \in 1..MaxStreams}
    \cup {CycleStream(u) : u \in 1..MaxCycle}
    \cup {ReplayStream(1), LowStream}

\* The words a run has taken are words one state of the generator gives.
WordsTaken == rng.at < 624

Stats(numerical, cold, least_often) ==
  [numerical |-> numerical, cold |-> cold, least_often |-> least_often]

StatsInputs ==
  {Stats(NumFull, ColdTen, LeastTen), Stats(NumFull, ColdFull, LeastFull),
   Stats(NumFull, <<>>, <<>>), Stats(NumFull, ColdFive, LeastTen),
   Stats(NumFull, ColdOdd, LeastTen),
   Stats(NumSeven, ColdTen, LeastTen), Stats(NumSix, ColdTen, LeastTen),
   Stats(<<>>, ColdTen, LeastTen), Stats(<<>>, <<>>, <<>>),
   Stats(NumDup, ColdTen, LeastTen), Stats(NumOut, ColdTen, LeastTen),
   Stats(NumStr, ColdTen, LeastTen), Stats(NumZero, ColdTen, LeastTen),
   Stats(NumNeg, ColdTen, LeastTen), Stats(NumCancel, ColdCancel, <<>>),
   Stats(NumSeven, <<>>, <<>>), Stats(NumZero, <<>>, <<>>)}

(***************************************************************************)
(* Results of a call: a value, or an exception that leaves the function;   *)
(* for a function that draws, also the generator after the call.           *)
(***************************************************************************)
Value(v) == [raised |-> FALSE, value |-> v]
Raised == [raised |-> TRUE, value |-> <<>>]
Drawn(v, gen) == [raised |-> FALSE, value |-> v, rng |-> gen]
DrawRaised(gen) == [raised |-> TRUE, value |-> <<>>, rng |-> gen]

\* {item['ball']: item['drawn'] for item in numerical_data if both are int}
\* .get(ball, default): a later record of a ball replaces an earlier one.
FreqMapGet(numerical_data, ball, default) ==
  LET idx == {i \in 1..Len(numerical_data) :
                IsInt(numerical_data[i].ball) /\ IsInt(numerical_data[i].drawn)
                  /\ numerical_data[i].ball.n = ball}
  IN IF idx = {} THEN default
     ELSE numerical_data[CHOOSE i \in idx : \A k \in idx : k <= i].drawn.n

\* The values the int-filtered frequency map holds.
FreqMapValues(numerical_data) ==
  {FreqMapGet(numerical_data, numerical_data[i].ball.n, 0) :
     i \in {k \in 1..Len(numerical_data) :
              IsInt(numerical_data[k].ball) /\ IsInt(numerical_data[k].drawn)}}

MaxOf(S, default) == IF S = {} THEN default ELSE CHOOSE x \in S : \A y \in S : y <= x

(***************************************************************************)
(* generate_probabilistic_row (lines 457-533)                              *)
(***************************************************************************)

\* Mutant: the weight is not floored at 0.1.
probabilistic_weight_nofloor(numerical_data, top_overdue, ball) ==
  LET frequency == FreqMapGet(numerical_data, ball, 0)
  IN BASE_WEIGHT + frequency * FREQUENCY_MULTIPLIER
       + (IF ball \in Range(top_overdue) THEN OVERDUE_BONUS ELSE 0)

\* weights[ball], in tenths (lines 477-487).
probabilistic_weight(numerical_data, top_overdue, ball) ==
  LET frequency == FreqMapGet(numerical_data, ball, 0)
      weight == BASE_WEIGHT + frequency * FREQUENCY_MULTIPLIER
                  + (IF ball \in Range(top_overdue) THEN OVERDUE_BONUS ELSE 0)
  IN Max(MIN_WEIGHT, weight)

\* weight_values of line 490 in tenths, for the balls in ascending order.
probabilistic_weights(st) ==
  WithValue(get_numbers_by_overdue(st.cold, NUM_OVERDUE_CONSIDERED), LAMBDA top_overdue :
    Listed([b \in 1..TOTAL_NUMBERS |-> probabilistic_weight(st.numerical, top_overdue, b)]))

\* cum_weights of the call of random.choices at line 507.  The weights are
\* floats: a sum of halves, which is exact, or the literal 0.1; a weight
\* that occurs again is the float computed for its first occurrence.
probabilistic_cum_weights(st) ==
  WithValue(probabilistic_weights(st), LAMBDA tenths :
    WithValue(Listed([b \in 1..TOTAL_NUMBERS |->
                        IF \E c \in 1..(b - 1) : tenths[c] = tenths[b]
                        THEN FloatOfInt(0) ELSE TrueDiv(tenths[b], 10)]),
              LAMBDA own :
      Accumulate(Listed([b \in 1..TOTAL_NUMBERS |->
                           own[Lowest({c \in 1..b : tenths[c] = tenths[b]})]]))))

\* The cum_weights of the statistics of StatsInputs, computed once, and
\* those of other statistics.
ProbabilisticCumWeightsGiven ==
  {[st |-> st, cum_weights |-> probabilistic_cum_weights(st)] : st \in StatsInputs}
ProbabilisticCumWeights(st) ==
  IF st \in StatsInputs
  THEN (CHOOSE e \in ProbabilisticCumWeightsGiven : e.st = st).cum_weights
  ELSE probabilistic_cum_weights(st)

\* The loop of lines 513-517: the first num_needed distinct numbers of the
\* weighted sample.
ProbabilisticUnique(weighted_sample, num_needed) ==
  LET unique == Distinct(weighted_sample)
  IN SubSeq(unique, 1, Min(Max(num_needed, 0), Len(unique)))

\* Lines 519-533: the random fill of a row that is still short.
ProbabilisticFill(gen, selected_numbers, num_needed) ==
  WithValue(SelectSeq(all_balls, LAMBDA ball : ball \notin Range(selected_numbers)),
            LAMBDA remaining_population :
    IF num_needed - Len(selected_numbers) > 0
         /\ ~SampleRaises(remaining_population, num_needed - Len(selected_numbers))
    THEN WithValue(RandomSample(gen, remaining_population, num_needed - Len(selected_numbers)),
                   LAMBDA random_fill :
           Drawn(SortedList(selected_numbers \o random_fill.value), random_fill.rng))
    ELSE Drawn(SortedList(selected_numbers), gen))

\* sorted(random.sample(all_balls, num_needed)), not inside a try.
UniformRow(gen, num_needed) ==
  IF SampleRaises(all_balls, num_needed) THEN DrawRaised(gen)
  ELSE WithValue(RandomSample(gen, all_balls, num_needed), LAMBDA s :
         Drawn(SortedList(s.value), s.rng))

\* The result of generate_probabilistic_row.
generate_probabilistic_row(st, num_needed, gen) ==
  IF st.numerical = <<>> THEN UniformRow(gen, num_needed)
  ELSE WithValue(ProbabilisticCumWeights(st), LAMBDA cum_weights :
         \* total_weight <= 0, which is also what random.choices refuses
         IF TotalRaises(cum_weights) THEN UniformRow(gen, num_needed)
         ELSE WithValue(ChoicesByCum(gen, all_balls, cum_weights, num_needed * 3),
                        LAMBDA weighted_sample :
                ProbabilisticFill(weighted_sample.rng,
                                  ProbabilisticUnique(weighted_sample.value, num_needed),
                                  num_needed)))

(***************************************************************************)
(* generate_overdue_frequency_row (lines 535-607)                          *)
(***************************************************************************)
\* extract_days of generate_overdue_frequency_row (lines 550-554)
row2_extract_days(info_str) ==
  IF ~IsStr(info_str) THEN 0
  ELSE LET m == ReSearchDays(info_str.s)
       IN IF m.ok THEN ParseInt(m.group1) ELSE 0

\* overdue_map.get(ball, default) (lines 556-560); an absent
\* 'last_drawn_info' reads as ''.
OverdueMapGet(cold_data, ball, default) ==
  LET idx == {i \in 1..Len(cold_data) : IsInt(cold_data[i].ball) /\ cold_data[i].ball.n = ball}
  IN IF idx = {} THEN default
     ELSE LET info == cold_data[CHOOSE i \in idx : \A k \in idx : k <= i].last_drawn_info
          IN row2_extract_days(IF info = Absent THEN StrV(<<>>) ELSE info)

OverdueMapValues(cold_data) ==
  {OverdueMapGet(cold_data, cold_data[i].ball.n, 0) :
     i \in {k \in 1..Len(cold_data) : IsInt(cold_data[k].ball)}}

\* max(map.values(), default=0) or 1
MaxOrOne(S) == IF MaxOf(S, 0) = 0 THEN 1 ELSE MaxOf(S, 0)

\* The weight of a ball as the float lines 578-580 compute:
\* 2.0 * (days / max_days) + 0.2 * (freq / max_freq) + 0.1
row2_float_weight(days, freq, max_days, max_freq) ==
  WithValue(FMul(TrueDiv(OVERDUE_WEIGHT, 10), TrueDiv(days, max_days)), LAMBDA by_days :
    WithValue(FMul(TrueDiv(FREQ_WEIGHT, 10), TrueDiv(freq, max_freq)), LAMBDA by_freq :
      WithValue(FAdd(by_days, by_freq), LAMBDA w : FAdd(w, TrueDiv(BASE_MIN_WEIGHT, 10)))))

\* weights of lines 575-581.  Balls of equal days and frequency have the
\* same weight: it is computed for the first of them.
row2_float_weights(st) ==
  WithValue(Listed([b \in 1..TOTAL_NUMBERS |->
                      <<OverdueMapGet(st.cold, b, 0), FreqMapGet(st.numerical, b, 0)>>]),
            LAMBDA of :
    WithValue(Listed([b \in 1..TOTAL_NUMBERS |-> Lowest({c \in 1..b : of[c] = of[b]})]),
              LAMBDA first :
      WithValue(<<MaxOrOne(OverdueMapValues(st.cold)), MaxOrOne(FreqMapValues(st.numerical))>>,
                LAMBDA max :
        WithValue(Listed([b \in 1..TOTAL_NUMBERS |->
                            IF first[b] = b
                            THEN row2_float_weight(of[b][1], of[b][2], max[1], max[2])
                            ELSE FloatOfInt(0)]),
                  LAMBDA own : Listed([b \in 1..TOTAL_NUMBERS |-> own[first[b]]])))))

\* cum_weights of the call of random.choices at line 585
row2_cum_weights(st) == Accumulate(row2_float_weights(st))

\* The cum_weights of the statistics of StatsInputs, computed once, and
\* those of other statistics.
Row2CumWeightsGiven ==
  {[st |-> st, cum_weights |-> row2_cum_weights(st)] : st \in StatsInputs}
Row2CumWeights(st) ==
  IF st \in StatsInputs
  THEN (CHOOSE e \in Row2CumWeightsGiven : e.st = st).cum_weights
  ELSE row2_cum_weights(st)

\* The loop of lines 589-594: distinct picks in order, left when the list
\* has just reached num_needed entries.
Row2Unique(picks, num_needed) ==
  LET unique == Distinct(picks)
  IN IF num_needed >= 1 THEN SubSeq(unique, 1, Min(num_needed, Len(unique)))
     ELSE unique

\* Lines 597-605: a short row is filled with the most overdue unused balls,
\* until it holds num_needed numbers or the balls are used up.
Row2Fill(st, sel, num_needed) ==
  LET \* key=lambda x: overdue_map.get(x, 0), reverse=True
      keys == Listed([b \in 1..TOTAL_NUMBERS |-> <<OverdueMapGet(st.cold, b, 0), 0>>])
      by_overdue == PySorted(all_balls, keys, TRUE)
      unused == SelectSeq(by_overdue, LAMBDA b : b \notin Range(sel))
  IN IF Len(sel) < num_needed
     THEN sel \o SubSeq(unused, 1, Min(num_needed - Len(sel), Len(unused)))
     ELSE sel

\* Mutant: the fill with the most overdue balls is left out.
generate_overdue_frequency_row_nofill(st, num_needed, gen) ==
  IF OverdueMapValues(st.cold) = {} /\ FreqMapValues(st.numerical) = {}
  THEN UniformRow(gen, num_needed)
  ELSE WithValue(Row2CumWeights(st), LAMBDA cum_weights :
         IF TotalRaises(cum_weights) THEN UniformRow(gen, num_needed)
         ELSE WithValue(ChoicesByCum(gen, all_balls, cum_weights, num_needed * 3),
                        LAMBDA picks :
                Drawn(SortedList(Row2Unique(picks.value, num_needed)), picks.rng)))

\* The result of generate_overdue_frequency_row.
generate_overdue_frequency_row(st, num_needed, gen) ==
  IF OverdueMapValues(st.cold) = {} /\ FreqMapValues(st.numerical) = {}
  THEN UniformRow(gen, num_needed)
  ELSE WithValue(Row2CumWeights(st), LAMBDA cum_weights :
         IF TotalRaises(cum_weights) THEN UniformRow(gen, num_needed)
         ELSE WithValue(ChoicesByCum(gen, all_balls, cum_weights, num_needed * 3),
                        LAMBDA picks :
                Drawn(SortedList(Row2Fill(st, Row2Unique(picks.value, num_needed),
                                          num_needed)),
                      picks.rng)))

(***************************************************************************)
(* The extractor: parse_table_data (lines 114-185) and                     *)
(* parse_numerical_order (lines 187-221).  A table is the list of its rows,*)
(* a row the list of its td/th cells, a cell its stripped text and the     *)
(* texts of the span.ball elements inside it.                              *)
(***************************************************************************)
\* The white space int() takes off the two ends of its text: blank, TAB, LF,
\* VT, FF and CR, not the separators U+001C to U+001F.
IsIntSpace(c) == c \in {" ", "\t", "\n", "\r", "\f", VT}

\* The text int() converts: its argument without the white space at the two
\* ends.
PyStrip(s) ==
  LET keep == {i \in 1..Len(s) : ~IsIntSpace(s[i])}
  IN IF keep = {} THEN <<>>
     ELSE SubSeq(s, CHOOSE i \in keep : \A k \in keep : i <= k,
                    CHOOSE i \in keep : \A k \in keep : k <= i)

\* int(text) of Python succeeds: white space at the two ends is taken off,
\* then come an optional sign and digits, single underscores allowed between
\* digits.
PyIntOk(s) ==
  LET t == PyStrip(s)
      body == IF t # <<>> /\ t[1] \in {"+", "-"} THEN Tail(t) ELSE t
  IN /\ body # <<>>
     /\ \A i \in 1..Len(body) : IsDigit(body[i]) \/ body[i] = "_"
     /\ IsDigit(body[1]) /\ IsDigit(body[Len(body)])
     /\ \A i \in 1..(Len(body) - 1) : ~(body[i] = "_" /\ body[i + 1] = "_")

\* The value of int(text) when it succeeds.
PyInt(s) ==
  LET n == ParseInt(SelectSeq(s, IsDigit))
  IN IF PyStrip(s)[1] = "-" THEN 0 - n ELSE n

\* text.replace(',', '')
RemoveCommas(s) == SelectSeq(s, LAMBDA c : c # ",")

Cell(tag, text, balls) == [tag |-> tag, text |-> text, balls |-> balls]
Td(text) == Cell("td", text, <<>>)
Th(text) == Cell("th", text, <<>>)
\* <td><span class="ball">text</span></td>
BallCell(text) == Cell("td", text, <<text>>)

\* A table element: rows inside a tbody when there is one, and the rows of
\* the table head.
NoTable == [present |-> FALSE, tbody |-> FALSE, head |-> <<>>, body |-> <<>>]
Table(tbody, head, body) == [present |-> TRUE, tbody |-> tbody, head |-> head, body |-> body]

\* Lines 121-127: the rows that are read.
table_rows(table_element) ==
  IF table_element.tbody THEN table_element.body
  ELSE table_element.head \o table_element.body

\* row_data of line 134 and balls of lines 135-136.
row_data_of(cells) == [i \in 1..Len(cells) |-> cells[i].text]

RECURSIVE balls_of(_)
balls_of(cells) ==
  IF cells = <<>> THEN <<>> ELSE cells[1].balls \o balls_of(Tail(cells))

\* Lines 130-132: the row is passed over.
row_skipped(cells, expected_cols) ==
  /\ (\E i \in 1..Len(cells) : cells[i].tag = "th") \/ Len(cells) # expected_cols
  /\ ~(Len(cells) > 0 /\ cells[1].balls # <<>>)

\* An item of the result: the keys it has, and their values.
Item(keys, ball, drawn, info, balls, raw_data) ==
  [keys |-> keys, ball |-> ball, drawn |-> drawn, last_drawn_info |-> info,
   balls |-> balls, raw_data |-> raw_data]

\* int(text.replace(',', '')) when it parses, the text as it stands when
\* not (lines 151-155, 159-163, 165-169).
drawn_count_of(text) ==
  IF PyIntOk(RemoveCommas(text)) THEN IntV(PyInt(RemoveCommas(text))) ELSE StrV(text)

\* lines 139-145: all ball texts are converted, or none is
balls_converted(balls) == \A i \in 1..Len(balls) : PyIntOk(balls[i])

balls_int_of(balls) ==
  [i \in 1..Len(balls) |->
     IF balls_converted(balls) THEN IntV(PyInt(balls[i])) ELSE StrV(balls[i])]

\* ball_int of lines 140 and 144: the text is kept when it is no integer.
ball_int_of(balls) ==
  IF Len(balls) = 1 THEN balls_int_of(balls)[1] ELSE Absent

\* Lines 147-178 for a row that is not passed over: the item, or the
\* IndexError that the fallback of a row that is too short raises again.
table_item(cells, expected_cols) ==
  LET row_data == row_data_of(cells)
      balls == balls_of(cells)
      balls_int == balls_int_of(balls)
      ball_int == ball_int_of(balls)
      \* lines 172-177: the texts are converted one by one
      processed_balls == [i \in 1..Len(balls) |->
                            IF PyIntOk(balls[i]) THEN IntV(PyInt(balls[i])) ELSE StrV(balls[i])]
      Out(item) == [raised |-> FALSE, item |-> item]
      IndexError == [raised |-> TRUE, item |-> <<>>]
  IN IF expected_cols = 3 /\ Len(balls_int) = 1 /\ ball_int # Absent
     THEN IF Len(row_data) < 3 THEN IndexError
          ELSE Out(Item({"ball", "drawn", "last_drawn_info"}, ball_int,
                        drawn_count_of(row_data[2]), StrV(row_data[3]), <<>>, <<>>))
     ELSE IF expected_cols = 2 /\ Len(balls_int) = 1 /\ ball_int # Absent
     THEN IF Len(row_data) < 2 THEN IndexError
          ELSE Out(Item({"ball", "last_drawn_info"}, ball_int, Absent, StrV(row_data[2]),
                        <<>>, <<>>))
     ELSE IF expected_cols = 3 /\ Len(balls_int) = 2
     THEN IF Len(row_data) < 3 THEN IndexError
          ELSE Out(Item({"balls", "drawn"}, Absent, drawn_count_of(row_data[3]), Absent,
                        balls_int, <<>>))
     ELSE IF expected_cols = 4 /\ Len(balls_int) = 3
     THEN IF Len(row_data) < 4 THEN IndexError
          ELSE Out(Item({"balls", "drawn"}, Absent, drawn_count_of(row_data[4]), Absent,
                        balls_int, <<>>))
     ELSE Out(Item({"balls", "raw_data"}, Absent, Absent, Absent, processed_balls, row_data))

\* The rows of the table that are not passed over.
rows_read(table_element, expected_cols) ==
  SelectSeq(table_rows(table_element), LAMBDA cells : ~row_skipped(cells, expected_cols))

\* The result of parse_table_data: the items of the rows read that have a
\* 'ball' or a 'balls' key (line 182), or the exception of a row.
parse_table_data(table_element, expected_cols) ==
  IF ~table_element.present THEN Value(<<>>)
  ELSE LET read == rows_read(table_element, expected_cols)
           items == Listed([i \in 1..Len(read) |-> table_item(read[i], expected_cols)])
           kept == SelectSeq(items, LAMBDA r : r.item.keys \cap {"ball", "balls"} # {})
       IN IF \E i \in 1..Len(items) : items[i].raised THEN Raised
          ELSE Value([i \in 1..Len(kept) |-> kept[i].item])

(***************************************************************************)
(* parse_numerical_order (lines 187-221).  The document is the list of the *)
(* div.tableCell elements of div#numericOrder; a cell may hold a div.ball, *)
(* a text with 'Drawn:' and, after it, a strong element.                   *)
(***************************************************************************)
NoText == [present |-> FALSE, text |-> <<>>]
Text(t) == [present |-> TRUE, text |-> t]
NumCell(ball, label, strong) == [ball |-> ball, label |-> label, strong |-> strong]
Soup(div, cells, strong_after) == [div |-> div, cells |-> cells, strong_after |-> strong_after]

\* drawn_text_element.find_next('strong'): the first strong element after
\* the text in the document, in this cell, in a later cell or after the div.
find_next_strong(soup, i) ==
  LET later == {j \in i..Len(soup.cells) : soup.cells[j].strong.present}
  IN IF later = {} THEN soup.strong_after
     ELSE soup.cells[CHOOSE j \in later : \A k \in later : j <= k].strong

\* drawn_times_text of lines 200-205.
drawn_times_text(soup, i) ==
  IF soup.cells[i].label /\ find_next_strong(soup, i).present
  THEN find_next_strong(soup, i).text
  ELSE <<"0">>

\* Lines 196-219: the records cell i adds, one or none.
numerical_cell(soup, i) ==
  LET ball_text == soup.cells[i].ball.text
      drawn_text == RemoveCommas(drawn_times_text(soup, i))
  IN IF ~soup.cells[i].ball.present THEN <<>>
     ELSE IF PyIntOk(ball_text) /\ PyIntOk(drawn_text)
     THEN <<Rec(IntV(PyInt(ball_text)), IntV(PyInt(drawn_text)), Absent)>>
     ELSE IF PyIntOk(ball_text)
     THEN <<Rec(IntV(PyInt(ball_text)), IntV(0), Absent)>>
     ELSE <<>>

RECURSIVE numerical_from(_, _)
numerical_from(soup, i) ==
  IF i > Len(soup.cells) THEN <<>>
  ELSE numerical_cell(soup, i) \o numerical_from(soup, i + 1)

parse_numerical_order(soup) ==
  IF ~soup.div THEN <<>> ELSE numerical_from(soup, 1)

(***************************************************************************)
(* Calls of the selectors on bounded inputs.                               *)
(***************************************************************************)
BallVals == {IntV(1), IntV(2), IntV(3), StrV(<<"x">>)}
DrawnVals == {IntV(10), IntV(20), StrV(<<"1", "x">>)}
InfoVals == {Absent, StrV(<<>>), StrV(T_12_days_ago), StrV(T_1_day_ago), StrV(T_yesterday),
             StrV(T_12_Days_Ago), StrV(T_12_DAYS_AGO), StrV(T_12_ctl_days_ago)}
ColdBallVals == {IntV(1), IntV(2), StrV(<<"x">>)}
ListVals == {1, 2, 3}

\* Records with an integer ball and count, and one record for each field
\* that is no integer.
FreqRecs ==
  {r \in {Rec(b, d, Absent) : b \in BallVals, d \in DrawnVals} :
     \/ IsInt(r.ball) /\ IsInt(r.drawn)
     \/ r = Rec(StrV(<<"x">>), IntV(10), Absent)
     \/ r = Rec(IntV(1), StrV(<<"1", "x">>), Absent)}
ColdRecs == {Rec(b, Absent, i) : b \in ColdBallVals, i \in InfoVals}

NoCall == [fn |-> "none"]

FrequencyCalls ==
  {[fn |-> "get_numbers_by_frequency", recs |-> r, count |-> c, highest |-> h] :
     r \in SeqsUpTo(FreqRecs, MaxFreqRecs), c \in 0..MaxCount, h \in BOOLEAN}

LeastFrequentCalls ==
  {[fn |-> "get_numbers_by_least_frequent", recs |-> r, count |-> c] :
     r \in SeqsUpTo(FreqRecs, MaxFreqRecs), c \in 0..MaxCount}

OverdueCalls ==
  {[fn |-> "get_numbers_by_overdue", recs |-> r, count |-> c] :
     r \in SeqsUpTo(ColdRecs, MaxColdRecs), c \in 0..MaxCount}

CombinationCalls ==
  {[fn |-> "select_unique_combination", list1 |-> a, count1 |-> ca,
    list2 |-> b, count2 |-> cb, total_needed |-> tn] :
     a \in SeqsUpTo(ListVals, MaxList), b \in SeqsUpTo(ListVals, MaxList),
     ca \in 0..MaxTake, cb \in 0..MaxTake, tn \in 0..MaxTake}

\* num_needed: none, the default, and one more than the pool holds.
GeneratorCalls ==
  {[fn |-> f, stats |-> st, num_needed |-> n] :
     f \in {"generate_probabilistic_row", "generate_overdue_frequency_row"},
     st \in StatsInputs, n \in {0, NUMBERS_PER_ROW, TOTAL_NUMBERS + 1}}

\* Texts of the ball and count columns: "7", "48", "0", "x7"; "12",
\* "1,234", "n/a", "12" with a blank and a VT before a comma.
BallTexts == {<<"7">>, <<"4", "8">>, <<"0">>, <<"x", "7">>}
DrawnTexts == {<<"1", "2">>, <<"1", ",", "2", "3", "4">>, <<"n", "/", "a">>, <<"1", "2", " ", VT, ",">>}

\* Rows of the tables of the page: hot and least often (three columns), cold
\* (two), pairs, triplets, a heading row, a row cut short and a row without
\* a ball.
HotRows == {<<BallCell(b), Td(d), Td(T_12_days_ago)>> : b \in BallTexts, d \in DrawnTexts}
ColdRows == {<<BallCell(b), Td(T_12_days_ago)>> : b \in BallTexts}
\* The count of the second pair is "12" with a separator U+001C before a
\* comma, which int() refuses.
PairRows == {<<BallCell(<<"7">>), BallCell(<<"0">>), Td(<<"1", "2">>)>>,
             <<BallCell(<<"7">>), BallCell(<<"x", "7">>), Td(<<"1", "2", FS, ",">>)>>}
TripletRow == <<BallCell(<<"7">>), BallCell(<<"4", "8">>), BallCell(<<"0">>), Td(<<"1", "2">>)>>
HeadRow == <<Th(<<"B">>), Th(<<"D">>), Th(<<"L">>)>>
ShortRow == <<BallCell(<<"7">>)>>
NoBallRow == <<Td(<<"7">>), Td(<<"1", "2">>), Td(T_yesterday)>>
TableRows == HotRows \cup ColdRows \cup PairRows \cup {TripletRow, HeadRow, ShortRow, NoBallRow}

Tables ==
  {NoTable} \cup {Table(tb, h, b) : tb \in BOOLEAN, h \in {<<>>, <<HeadRow>>},
                                    b \in SeqsUpTo(TableRows, MaxTableRows)}

ParseTableCalls ==
  {[fn |-> "parse_table_data", table_element |-> t, expected_cols |-> e] :
     t \in Tables, e \in {2, 3, 4}}

NumCells ==
  {NumCell(b, l, s) : b \in {NoText, Text(<<"7">>), Text(<<"4", "8">>), Text(<<"x", "7">>)},
                      l \in BOOLEAN,
                      s \in {NoText, Text(<<"1", "2">>), Text(<<"n", "/", "a">>),
                             Text(<<"1", "2", " ", VT, ",">>)}}

Soups ==
  {Soup(d, c, s) : d \in BOOLEAN, c \in SeqsUpTo(NumCells, MaxNumCells),
                   s \in {NoText, Text(<<"3">>)}}

ParseNumericalCalls == {[fn |-> "parse_numerical_order", soup |-> s] : s \in Soups}

\* A call of one of the functions is about to be made.
InitCall(calls) ==
  /\ pc = "call"
  /\ call \in calls
  /\ ret = <<>>
  /\ stats = Stats(<<>>, <<>>, <<>>)
  /\ numbers_per_row = NUMBERS_PER_ROW
  /\ most_common_all = <<>>
  /\ most_overdue_all = <<>>
  /\ least_common_all = <<>>
  /\ rows = <<>>
  /\ strategies = <<>>
  /\ used_numbers_global = {}
  /\ row3_candidates = <<>>
  /\ temp_cands = <<>>
  /\ temp_weights = <<>>
  /\ selected = <<>>
  /\ rng = Rng(SpreadStream(1))

CallFrequency ==
  /\ pc = "call"
  /\ call.fn = "get_numbers_by_frequency"
  /\ ret' = get_numbers_by_frequency(call.recs, call.count, call.highest)
  /\ pc' = "returned"
  /\ UNCHANGED <<call, orchVars, rng>>

CallLeastFrequent ==
  /\ pc = "call"
  /\ call.fn = "get_numbers_by_least_frequent"
  /\ ret' = get_numbers_by_least_frequent(call.recs, call.count)
  /\ pc' = "returned"
  /\ UNCHANGED <<call, orchVars, rng>>

CallOverdue ==
  /\ pc = "call"
  /\ call.fn = "get_numbers_by_overdue"
  /\ ret' = get_numbers_by_overdue(call.recs, call.count)
  /\ pc' = "returned"
  /\ UNCHANGED <<call, orchVars, rng>>

CallCombination ==
  /\ pc = "call"
  /\ call.fn = "select_unique_combination"
  /\ ret' \in select_unique_combination(call.list1, call.count1, call.list2, call.count2,
                                        call.total_needed)
  /\ pc' = "returned"
  /\ UNCHANGED <<call, orchVars, rng>>

CallProbabilistic ==
  /\ pc = "call"
  /\ call.fn = "generate_probabilistic_row"
  /\ \E r \in {generate_probabilistic_row(call.stats, call.num_needed, rng)} :
       /\ ret' = r.value
       /\ pc' = IF r.raised THEN "raised" ELSE "returned"
       /\ rng' = r.rng
  /\ UNCHANGED <<call, orchVars>>

CallOverdueFrequency ==
  /\ pc = "call"
  /\ call.fn = "generate_overdue_frequency_row"
  /\ \E r \in {generate_overdue_frequency_row(call.stats, call.num_needed, rng)} :
       /\ ret' = r.value
       /\ pc' = IF r.raised THEN "raised" ELSE "returned"
       /\ rng' = r.rng
  /\ UNCHANGED <<call, orchVars>>

CallParseTable ==
  /\ pc = "call"
  /\ call.fn = "parse_table_data"
  /\ LET r == parse_table_data(call.table_element, call.expected_cols)
     IN /\ ret' = r.value
        /\ pc' = IF r.raised THEN "raised" ELSE "returned"
  /\ UNCHANGED <<call, orchVars, rng>>

CallParseNumerical ==
  /\ pc = "call"
  /\ call.fn = "parse_numerical_order"
  /\ ret' = parse_numerical_order(call.soup)
  /\ pc' = "returned"
  /\ UNCHANGED <<call, orchVars, rng>>

\* The two frequency selectors.
InitFreq == InitCall(FrequencyCalls \cup LeastFrequentCalls)
NextFreq == CallFrequency \/ CallLeastFrequent
SpecFreq == InitFreq /\ [][NextFreq]_vars

\* The overdue selector.
InitOverdue == InitCall(OverdueCalls)
NextOverdue == CallOverdue
SpecOverdue == InitOverdue /\ [][NextOverdue]_vars

\* The combination of two lists.
InitComb == InitCall(CombinationCalls)
NextComb == CallCombination
SpecComb == InitComb /\ [][NextComb]_vars

\* The two weighted generators.
InitGen ==
  /\ pc = "call"
  /\ call \in GeneratorCalls
  /\ ret = <<>>
  /\ stats = Stats(<<>>, <<>>, <<>>)
  /\ numbers_per_row = NUMBERS_PER_ROW
  /\ most_common_all = <<>>
  /\ most_overdue_all = <<>>
  /\ least_common_all = <<>>
  /\ rows = <<>>
  /\ strategies = <<>>
  /\ used_numbers_global = {}
  /\ row3_candidates = <<>>
  /\ temp_cands = <<>>
  /\ temp_weights = <<>>
  /\ selected = <<>>
  /\ rng \in {Rng(s) : s \in Streams}
NextGen == CallProbabilistic \/ CallOverdueFrequency
SpecGen == InitGen /\ [][NextGen]_vars

\* The extractor.
InitParse == InitCall(ParseTableCalls \cup ParseNumericalCalls)
NextParse == CallParseTable \/ CallParseNumerical
SpecParse == InitParse /\ [][NextParse]_vars

(***************************************************************************)
(* generate_output_rows (lines 612-821)                                    *)
(***************************************************************************)
\* An entry of rows: a list of numbers, or the string "duplicate".
RowV(nums) == [duplicate |-> FALSE, nums |-> nums]
Duplicate == [duplicate |-> TRUE, nums |-> <<>>]

\* numbers_per_row as given by the caller: the default, and one more than
\* the pool holds.
NprValues == {NUMBERS_PER_ROW, TOTAL_NUMBERS + 1}

Init ==
  /\ pc = "start"
  /\ call = NoCall
  /\ ret = <<>>
  /\ stats \in StatsInputs
  /\ numbers_per_row \in NprValues
  /\ most_common_all = <<>>
  /\ most_overdue_all = <<>>
  /\ least_common_all = <<>>
  /\ rows = <<>>
  /\ strategies = <<>>
  /\ used_numbers_global = {}
  /\ row3_candidates = <<>>
  /\ temp_cands = <<>>
  /\ temp_weights = <<>>
  /\ selected = <<>>
  /\ rng \in {Rng(s) : s \in Streams}

inputVars == <<call, stats, numbers_per_row>>
listVars == <<most_common_all, most_overdue_all, least_common_all>>
row3Vars == <<row3_candidates, temp_cands, temp_weights, selected>>

\* Lines 614-626: the three sorted lists and the validation of the first.
Prepare ==
  /\ pc = "start"
  /\ most_common_all' = get_numbers_by_frequency(stats.numerical, fetch_count, TRUE)
  /\ most_overdue_all' = get_numbers_by_overdue(stats.cold, fetch_count)
  /\ least_common_all' = get_numbers_by_least_frequent(stats.least_often, fetch_count)
  /\ IF most_common_all' = <<>> \/ Len(most_common_all') < numbers_per_row
     THEN pc' = "done" /\ ret' = <<>>
     ELSE pc' = "row1" /\ ret' = ret
  /\ UNCHANGED <<inputVars, rows, strategies, used_numbers_global, row3Vars, rng>>

\* Lines 628-636.
Row1 ==
  /\ pc = "row1"
  /\ \E r \in {generate_probabilistic_row(stats, numbers_per_row, rng)} :
       /\ rng' = r.rng
       /\ IF r.raised
          THEN pc' = "raised" /\ UNCHANGED <<ret, rows, strategies, used_numbers_global>>
          ELSE IF Len(r.value) = numbers_per_row
               THEN /\ rows' = Append(rows, RowV(SortedList(r.value)))
                    /\ strategies' = Append(strategies, 1)
                    /\ used_numbers_global' = used_numbers_global \cup Range(r.value)
                    /\ pc' = "row2"
                    /\ ret' = ret
               ELSE /\ pc' = "done"
                    /\ ret' = <<>>
                    /\ UNCHANGED <<rows, strategies, used_numbers_global>>
  /\ UNCHANGED <<inputVars, listVars, row3Vars>>

\* Lines 639-646.
Row2 ==
  /\ pc = "row2"
  /\ \E r \in {generate_overdue_frequency_row(stats, numbers_per_row, rng)} :
       /\ rng' = r.rng
       /\ IF r.raised
          THEN pc' = "raised" /\ UNCHANGED <<rows, strategies, used_numbers_global>>
          ELSE IF Len(r.value) = numbers_per_row
               THEN /\ rows' = Append(rows, RowV(r.value))
                    /\ strategies' = Append(strategies, 2)
                    /\ used_numbers_global' = used_numbers_global \cup Range(r.value)
                    /\ pc' = "row3"
               ELSE /\ pc' = "row3"
                    /\ UNCHANGED <<rows, strategies, used_numbers_global>>
  /\ UNCHANGED <<ret, inputVars, listVars, row3Vars>>

\* freq_map of line 654, built from every record: it raises KeyError when a
\* record has no 'ball' or no 'drawn'.
Row3FreqMapRaises(numerical_data) ==
  \E i \in 1..Len(numerical_data) :
     numerical_data[i].ball = Absent \/ numerical_data[i].drawn = Absent

\* freq_map.get(num, 1) of line 656, a Python value.
Row3FreqMapGet(numerical_data, num) ==
  LET idx == {i \in 1..Len(numerical_data) : numerical_data[i].ball = IntV(num)}
  IN IF idx = {} THEN IntV(1)
     ELSE numerical_data[CHOOSE i \in idx : \A k \in idx : k <= i].drawn

\* Mutant: the candidates of row 3 are all the most common numbers.
Row3Begin_noexclude ==
  /\ pc = "row3"
  /\ LET cands == most_common_all
     IN /\ row3_candidates' = cands
        /\ IF cands = <<>>
           THEN pc' = "row4" /\ UNCHANGED <<temp_cands, temp_weights, selected>>
           ELSE IF Row3FreqMapRaises(stats.numerical)
                THEN pc' = "raised" /\ UNCHANGED <<temp_cands, temp_weights, selected>>
                ELSE /\ temp_cands' = cands
                     /\ temp_weights' = [i \in 1..Len(cands) |-> Row3FreqMapGet(stats.numerical, cands[i])]
                     /\ selected' = <<>>
                     /\ pc' = "row3_loop"
  /\ UNCHANGED <<ret, inputVars, listVars, rows, strategies, used_numbers_global, rng>>

\* Mutant: a row 3 that is skipped for want of candidates leaves an empty
\* entry at its position.
Row3Begin_placeholder ==
  /\ pc = "row3"
  /\ LET cands == SelectSeq(most_common_all, LAMBDA num : num \notin used_numbers_global)
     IN /\ row3_candidates' = cands
        /\ IF cands = <<>>
           THEN /\ pc' = "row4"
                /\ rows' = Append(rows, RowV(<<>>))
                /\ strategies' = Append(strategies, 3)
                /\ UNCHANGED <<temp_cands, temp_weights, selected>>
           ELSE /\ UNCHANGED <<rows, strategies>>
                /\ IF Row3FreqMapRaises(stats.numerical)
                   THEN pc' = "raised" /\ UNCHANGED <<temp_cands, temp_weights, selected>>
                   ELSE /\ temp_cands' = cands
                        /\ temp_weights' = [i \in 1..Len(cands) |-> Row3FreqMapGet(stats.numerical, cands[i])]
                        /\ selected' = <<>>
                        /\ pc' = "row3_loop"
  /\ UNCHANGED <<ret, inputVars, listVars, used_numbers_global, rng>>

\* Lines 649-662: the candidates of row 3 and their weights.
Row3Begin ==
  /\ pc = "row3"
  /\ LET cands == SelectSeq(most_common_all, LAMBDA num : num \notin used_numbers_global)
     IN /\ row3_candidates' = cands
        /\ IF cands = <<>>
           THEN pc' = "row4" /\ UNCHANGED <<temp_cands, temp_weights, selected>>
           ELSE IF Row3FreqMapRaises(stats.numerical)
                THEN pc' = "raised" /\ UNCHANGED <<temp_cands, temp_weights, selected>>
                ELSE /\ temp_cands' = cands
                     /\ temp_weights' = [i \in 1..Len(cands) |-> Row3FreqMapGet(stats.numerical, cands[i])]
                     /\ selected' = <<>>
                     /\ pc' = "row3_loop"
  /\ UNCHANGED <<ret, inputVars, listVars, rows, strategies, used_numbers_global, rng>>

\* list.index(x) and list.pop(i)
IndexOf(list, x) == CHOOSE i \in 1..Len(list) : list[i] = x /\ \A k \in 1..(i - 1) : list[k] # x
Pop(list, i) == SubSeq(list, 1, i - 1) \o SubSeq(list, i + 1, Len(list))

\* Mutant: a pass of the loop removes the first weight, whichever candidate
\* was drawn.
Row3Pick_firstweight ==
  /\ pc = "row3_loop"
  /\ Len(selected) < numbers_per_row
  /\ temp_cands # <<>>
  /\ IF ChoicesRaises(temp_cands, temp_weights)
     THEN /\ selected' = PySliceTo(row3_candidates, numbers_per_row)
          /\ pc' = "row3_fill"
          /\ UNCHANGED <<temp_cands, temp_weights, rng>>
     ELSE \E picks \in {RandomChoices(rng, temp_cands, temp_weights, 1)} :
            /\ selected' = Append(selected, picks.value[1])
            /\ temp_cands' = Pop(temp_cands, IndexOf(temp_cands, picks.value[1]))
            /\ temp_weights' = Pop(temp_weights, 1)
            /\ rng' = picks.rng
            /\ pc' = pc
  /\ UNCHANGED <<ret, inputVars, listVars, rows, strategies, used_numbers_global, row3_candidates>>

\* One pass of the loop of lines 663-668, or the handler of lines 669-671.
Row3Pick ==
  /\ pc = "row3_loop"
  /\ Len(selected) < numbers_per_row
  /\ temp_cands # <<>>
  /\ IF ChoicesRaises(temp_cands, temp_weights)
     THEN /\ selected' = PySliceTo(row3_candidates, numbers_per_row)
          /\ pc' = "row3_fill"
          /\ UNCHANGED <<temp_cands, temp_weights, rng>>
     ELSE \E picks \in {RandomChoices(rng, temp_cands, temp_weights, 1)} :
            /\ selected' = Append(selected, picks.value[1])
            /\ temp_cands' = Pop(temp_cands, IndexOf(temp_cands, picks.value[1]))
            /\ temp_weights' = Pop(temp_weights, IndexOf(temp_cands, picks.value[1]))
            /\ rng' = picks.rng
            /\ pc' = pc
  /\ UNCHANGED <<ret, inputVars, listVars, rows, strategies, used_numbers_global, row3_candidates>>

\* selected after the fill of lines 674-680, and the generator.
Row3Filled(gen, sel, used, npr) ==
  LET remaining == SelectSeq(all_balls, LAMBDA n : n \notin used /\ n \notin Range(sel))
  IN IF Len(sel) < npr /\ ~SampleRaises(remaining, npr - Len(sel))
     THEN WithValue(RandomSample(gen, remaining, npr - Len(sel)), LAMBDA fill :
            [value |-> sel \o fill.value, rng |-> fill.rng])
     ELSE [value |-> sel, rng |-> gen]

\* Lines 673-688, once the loop has ended or the handler has run.
Row3Finish ==
  /\ pc \in {"row3_loop", "row3_fill"}
  /\ pc = "row3_loop" => ~(Len(selected) < numbers_per_row /\ temp_cands # <<>>)
  /\ \E sel \in {Row3Filled(rng, selected, used_numbers_global, numbers_per_row)} :
       /\ selected' = sel.value
       /\ rng' = sel.rng
       /\ IF Len(sel.value) = numbers_per_row
          THEN /\ rows' = Append(rows, RowV(SortedList(sel.value)))
               /\ strategies' = Append(strategies, 3)
               /\ used_numbers_global' = used_numbers_global \cup Range(sel.value)
          ELSE UNCHANGED <<rows, strategies, used_numbers_global>>
  /\ pc' = "row4"
  /\ UNCHANGED <<ret, inputVars, listVars, row3_candidates, temp_cands, temp_weights>>

\* Lines 730-749: the fill of selected_r4 from the numbers not yet in it.
Row4Fill(gen, sel, npr) ==
  LET needed_fill == npr - Cardinality(sel)
      remaining_pool == SetDifferenceList(Cardinality(sel), sel)
      can_fill == Min(needed_fill, Len(remaining_pool))
  IN IF needed_fill > 0 /\ can_fill > 0
     THEN WithValue(RandomSample(gen, remaining_pool, can_fill), LAMBDA fill_picks :
            [value |-> sel \cup Range(fill_picks.value), rng |-> fill_picks.rng])
     ELSE [value |-> sel, rng |-> gen]

\* Lines 714-728: the sample of the cold candidates not yet selected.
Row4Cold(gen, sel, cold_pool_r4, npr) ==
  LET cold_candidates_for_sampling == SelectSeq(cold_pool_r4, LAMBDA num : num \notin sel)
      can_pick_from_cold == Min(count2_r4, Len(cold_candidates_for_sampling))
  IN IF can_pick_from_cold > 0
     THEN WithValue(RandomSample(gen, cold_candidates_for_sampling, can_pick_from_cold),
                    LAMBDA cold_picks :
            Row4Fill(cold_picks.rng, sel \cup Range(cold_picks.value), npr))
     ELSE Row4Fill(gen, sel, npr)

\* selected_r4 when line 752 is reached, and the generator (lines 701-749).
Row4Selected(gen, hot_pool_r4, cold_pool_r4, npr) ==
  WithValue(RandomSample(gen, hot_pool_r4, count1_r4), LAMBDA hot_picks :
    Row4Cold(hot_picks.rng, Range(hot_picks.value), cold_pool_r4, npr))

\* Lines 690-756.
Row4 ==
  /\ pc = "row4"
  /\ LET hot_pool_r4 == PySliceTo(most_common_all, pool_size_r4)
         cold_pool_r4 == PySliceTo(most_overdue_all, pool_size_r4)
     IN IF Len(hot_pool_r4) < count1_r4 \/ Len(cold_pool_r4) < count2_r4
        THEN UNCHANGED <<rows, strategies, rng>>
        ELSE \E selected_r4 \in {Row4Selected(rng, hot_pool_r4, cold_pool_r4, numbers_per_row)} :
               /\ rng' = selected_r4.rng
               /\ IF Cardinality(selected_r4.value) = numbers_per_row
                  THEN /\ rows' = Append(rows, RowV(SortedInts(selected_r4.value)))
                       /\ strategies' = Append(strategies, 4)
                  ELSE UNCHANGED <<rows, strategies>>
  /\ pc' = "row5"
  /\ UNCHANGED <<ret, inputVars, listVars, used_numbers_global, row3Vars>>

\* Lines 759-774.
Row5 ==
  /\ pc = "row5"
  /\ LET hot_r5_candidates == PySliceFrom(most_common_all, count1_r4)
         cold_r5_candidates == PySliceFrom(most_overdue_all, count2_r4)
     IN IF Len(hot_r5_candidates) >= count_hot_r5 /\ Len(cold_r5_candidates) >= count_cold_r5
        THEN \E row5 \in select_unique_sets(hot_r5_candidates, count_hot_r5,
                                            cold_r5_candidates, count_cold_r5, numbers_per_row) :
               IF Cardinality(row5) = numbers_per_row
               THEN /\ rows' = Append(rows, RowV(SortedInts(row5)))
                    /\ strategies' = Append(strategies, 5)
               ELSE UNCHANGED <<rows, strategies>>
        ELSE UNCHANGED <<rows, strategies>>
  /\ pc' = "row6"
  /\ UNCHANGED <<ret, inputVars, listVars, used_numbers_global, row3Vars, rng>>

\* middle_pool of lines 778-783: the list of a set difference.
MiddlePool(mc, lc, mo) ==
  LET exclusion_set == Range(PySliceTo(mc, N_extremes)) \cup Range(PySliceTo(lc, N_extremes))
                         \cup Range(PySliceTo(mo, N_extremes))
  IN SetDifferenceList(Cardinality(exclusion_set), exclusion_set)

\* The statements 'import random' of lines 660 and 703 make random a local
\* name of generate_output_rows, bound once one of them has run: line 660
\* runs when row 3 has candidates, line 703 when the pools of row 4 are large
\* enough.
random_is_bound ==
  \/ row3_candidates # <<>>
  \/ ~(Len(PySliceTo(most_common_all, pool_size_r4)) < count1_r4
         \/ Len(PySliceTo(most_overdue_all, pool_size_r4)) < count2_r4)

\* Lines 776-807. The name random read at lines 789 and 803 is the local one:
\* read unbound it raises UnboundLocalError, which no handler of row 6
\* catches.
Row6 ==
  /\ pc = "row6"
  /\ LET middle_pool == MiddlePool(most_common_all, least_common_all, most_overdue_all)
         pool == IF Len(middle_pool) >= numbers_per_row THEN middle_pool ELSE all_balls
     IN IF ~random_is_bound
        THEN pc' = "raised" /\ UNCHANGED <<rows, strategies, rng>>
        ELSE /\ pc' = "dedup"
             /\ IF SampleRaises(pool, numbers_per_row)
                THEN UNCHANGED <<rows, strategies, rng>>
                ELSE \E row6 \in {RandomSample(rng, pool, numbers_per_row)} :
                       /\ rows' = Append(rows, RowV(SortedList(row6.value)))
                       /\ strategies' = Append(strategies, 6)
                       /\ rng' = row6.rng
  /\ UNCHANGED <<ret, inputVars, listVars, used_numbers_global, row3Vars>>

\* Mutant: a repeated row is removed from the list.
Deduplicated_remove(rs) ==
  LET keep == {i \in 1..Len(rs) : \A j \in 1..(i - 1) : rs[j] # rs[i]}
  IN [i \in 1..Cardinality(keep) |->
        rs[CHOOSE k \in keep : Cardinality({m \in keep : m < k}) = i - 1]]

\* Lines 810-818: every row equal to an earlier row becomes "duplicate".
Deduplicated(rs) ==
  [idx \in 1..Len(rs) |->
     IF ~rs[idx].duplicate /\ \E j \in 1..(idx - 1) : ~rs[j].duplicate /\ rs[j].nums = rs[idx].nums
     THEN Duplicate ELSE rs[idx]]

\* Lines 810-821.
Dedup ==
  /\ pc = "dedup"
  /\ rows' = Deduplicated(rows)
  /\ ret' = rows'
  /\ pc' = "done"
  /\ UNCHANGED <<inputVars, listVars, strategies, used_numbers_global, row3Vars, rng>>

\* The literal 6 of line 910.
rows_required == 6

\* Mutant: the rows returned are written whenever there are any.
WriteOutput_partial ==
  /\ pc = "done"
  /\ numbers_per_row = NUMBERS_PER_ROW
  /\ IF ret # <<>>
     THEN pc' \in {"written", "write_failed"}
     ELSE pc' = "not_written"
  /\ UNCHANGED <<ret, orchVars, call, rng>>

\* Lines 905-934 of the main program, which calls generate_output_rows with
\* NUMBERS_PER_ROW: the rows are written to the output file when there are
\* exactly six of them (an IOError of the write is caught), and nothing is
\* written otherwise.
WriteOutput ==
  /\ pc = "done"
  /\ numbers_per_row = NUMBERS_PER_ROW
  /\ IF ret # <<>> /\ Len(ret) = rows_required
     THEN pc' \in {"written", "write_failed"}
     ELSE pc' = "not_written"
  /\ UNCHANGED <<ret, orchVars, call, rng>>

Next ==
  \/ Prepare \/ Row1 \/ Row2 \/ Row3Begin \/ Row3Pick \/ Row3Finish
  \/ Row4 \/ Row5 \/ Row6 \/ Dedup \/ WriteOutput

Spec == Init /\ [][Next]_vars

(***************************************************************************)
(* Properties of the selectors.                                            *)
(***************************************************************************)
Returned(fn) == pc = "returned" /\ call.fn = fn

\* out lists the balls of the first n records of valid in an order in which
\* Prec(a, b) holds whenever a is listed before b, and before every record
\* that is not listed.
IsTopSelection(out, valid, n, Prec(_, _)) ==
  /\ Len(out) = Min(n, Len(valid))
  /\ \E p \in [1..Len(out) -> 1..Len(valid)] :
       /\ \A i, j \in 1..Len(out) : i # j => p[i] # p[j]
       /\ \A i \in 1..Len(out) : valid[p[i]].ball.n = out[i]
       /\ \A i, j \in 1..Len(out) : i < j => Prec(valid[p[i]], valid[p[j]])
       /\ \A i \in 1..Len(out) : \A k \in 1..Len(valid) :
            (\A j \in 1..Len(out) : p[j] # k) => Prec(valid[p[i]], valid[k])

\* C5: get_numbers_by_frequency returns at most count balls, ordered by drawn
\* count then ball in the requested direction, and no ball twice, for any
\* records (a ball may have several records).
C5_FrequencyOrderedNoDuplicates ==
  Returned("get_numbers_by_frequency") =>
    /\ Len(ret) <= call.count
    /\ IsTopSelection(ret, FreqValid(call.recs), call.count,
                      LAMBDA a, b : IF call.highest THEN ~FreqKeyLess(a, b)
                                    ELSE ~FreqKeyLess(b, a))
    /\ NoRepeat(ret)

C6_Scenario ==
  [fn |-> "get_numbers_by_frequency",
   recs |-> <<Rec(IntV(1), IntV(10), Absent), Rec(IntV(2), IntV(20), Absent),
              Rec(IntV(3), IntV(10), Absent)>>,
   count |-> 2, highest |-> TRUE]

\* C6 as stated: with highest=true, equal drawn counts are ordered lower ball
\* first, and the scenario returns [2, 1].
C6_Original ==
  (Returned("get_numbers_by_frequency") /\ call.highest) =>
    /\ IsTopSelection(ret, FreqValid(call.recs), call.count,
                      LAMBDA a, b : \/ a.drawn.n > b.drawn.n
                                    \/ (a.drawn.n = b.drawn.n /\ a.ball.n <= b.ball.n))
    /\ (call = C6_Scenario => ret = <<2, 1>>)

\* C6 as amended: with highest=true the whole key (drawn, ball) is reversed,
\* so equal drawn counts are ordered higher ball first, and the scenario
\* returns [2, 3].
C6_TieBreakHigherBallFirst ==
  (Returned("get_numbers_by_frequency") /\ call.highest) =>
    /\ IsTopSelection(ret, FreqValid(call.recs), call.count,
                      LAMBDA a, b : \/ a.drawn.n > b.drawn.n
                                    \/ (a.drawn.n = b.drawn.n /\ a.ball.n >= b.ball.n))
    /\ (call = C6_Scenario => ret = <<2, 3>>)

C6_Witness ==
  Returned("get_numbers_by_frequency") /\ call = C6_Scenario /\ ret = <<2, 3>>

\* The integer balls of the records, and the largest days-ago value a ball has.
ColdBalls(recs) == {recs[i].ball.n : i \in {k \in 1..Len(recs) : IsInt(recs[k].ball)}}
RecsOfBall(recs, b) == {i \in 1..Len(recs) : recs[i].ball = IntV(b)}
BestDays(recs, b) ==
  LET ds == {overdue_days_ago(recs[i]) : i \in RecsOfBall(recs, b)}
  IN CHOOSE d \in ds : \A e \in ds : e <= d
PosIn(seq, x) == CHOOSE i \in 1..Len(seq) : seq[i] = x

\* C7: get_numbers_by_overdue returns the first count distinct balls in the
\* order days-ago descending, ball ascending on ties; never more than count
\* entries, never a ball twice.
C7_OverdueFirstCountBallAscending ==
  Returned("get_numbers_by_overdue") =>
    LET B == ColdBalls(call.recs)
        Prec(x, y) == \/ BestDays(call.recs, x) > BestDays(call.recs, y)
                      \/ (BestDays(call.recs, x) = BestDays(call.recs, y) /\ x <= y)
    IN /\ Len(ret) <= call.count
       /\ Len(ret) = Min(call.count, Cardinality(B))
       /\ NoRepeat(ret)
       /\ Range(ret) \subseteq B
       /\ \A i, j \in 1..Len(ret) : i < j => Prec(ret[i], ret[j])
       /\ \A i \in 1..Len(ret) : \A b \in B \ Range(ret) : Prec(ret[i], b)

\* The texts C8 names.
C8_Texts == {Absent, StrV(<<>>), StrV(T_12_days_ago), StrV(T_1_day_ago), StrV(T_yesterday)}

\* The days-ago values C8 names, text by text.
C8_ExpectedDays(info) ==
  CASE info = Absent -> 0
    [] info = StrV(<<>>) -> 0
    [] info = StrV(T_12_days_ago) -> 12
    [] info = StrV(T_1_day_ago) -> 1
    [] info = StrV(T_yesterday) -> 9999

\* C8: the days-ago value is N for "N days ago", 0 for missing or empty text,
\* 9999 for text without a match; so a ball with unparsable text is listed
\* before every ball whose values are all below 9999, and a ball with only
\* missing text after every ball with a positive parsed value.
C8_OverdueSentinels ==
  Returned("get_numbers_by_overdue") =>
    LET recs == call.recs
        B == ColdBalls(recs)
        Unparsable(x) == \E i \in RecsOfBall(recs, x) : recs[i].last_drawn_info = StrV(T_yesterday)
        Below(y) == \A i \in RecsOfBall(recs, y) :
                       /\ recs[i].last_drawn_info \in C8_Texts
                       /\ C8_ExpectedDays(recs[i].last_drawn_info) < 9999
        Positive(x) == \E i \in RecsOfBall(recs, x) :
                          recs[i].last_drawn_info \in {StrV(T_12_days_ago), StrV(T_1_day_ago)}
        Missing(y) == \A i \in RecsOfBall(recs, y) :
                          recs[i].last_drawn_info \in {Absent, StrV(<<>>)}
        Ahead(x, y) == y \in Range(ret) =>
                         (x \in Range(ret) /\ PosIn(ret, x) < PosIn(ret, y))
    IN /\ \A i \in 1..Len(recs) :
            (IsInt(recs[i].ball) /\ recs[i].last_drawn_info \in C8_Texts) =>
              overdue_days_ago(recs[i]) = C8_ExpectedDays(recs[i].last_drawn_info)
       /\ \A x, y \in B : (Unparsable(x) /\ Below(y)) => Ahead(x, y)
       /\ \A x, y \in B : (Positive(x) /\ Missing(y)) => Ahead(x, y)

C8_Witness ==
  /\ Returned("get_numbers_by_overdue")
  /\ call.recs = <<Rec(IntV(1), Absent, StrV(T_12_days_ago)), Rec(IntV(2), Absent, StrV(T_yesterday))>>
  /\ call.count = 2
  /\ ret = <<2, 1>>

\* C9: select_unique_combination returns at most total values, none twice,
\* each an element of A or of B.
C9_CombinationBounded ==
  Returned("select_unique_combination") =>
    /\ Len(ret) <= call.total_needed
    /\ NoRepeat(ret)
    /\ Range(ret) \subseteq Range(call.list1) \cup Range(call.list2)

C9_Witness ==
  /\ Returned("select_unique_combination")
  /\ call.count1 > call.total_needed
  /\ Cardinality(Range(call.list1)) > call.total_needed
  /\ call.total_needed > 0
  /\ Len(ret) = call.total_needed

(***************************************************************************)
(* Claims about generate_output_rows and the two weighted generators.      *)
(***************************************************************************)
IsRowOfSeven(nums) ==
  /\ Len(nums) = NUMBERS_PER_ROW
  /\ \A i \in 1..Len(nums) : nums[i] \in 1..TOTAL_NUMBERS
  /\ \A i, j \in 1..Len(nums) : i < j => nums[i] < nums[j]

\* C1: every entry of the returned sequence that is a row holds exactly 7
\* pairwise distinct integers of 1..47 in ascending order, for every
\* statistics mapping (any ball values, repeated balls).
C1_RowsWellFormed ==
  (pc = "done" /\ numbers_per_row = NUMBERS_PER_ROW) =>
    \A i \in 1..Len(ret) : ~ret[i].duplicate => IsRowOfSeven(ret[i].nums)

\* C2: generate_probabilistic_row and generate_overdue_frequency_row return
\* exactly 7 distinct values of 1..47 for every statistics input and every
\* outcome of the draws (no frequency data, fewer than 7 distinct values
\* among the 21 draws), and never leave by an exception.
C2_GeneratorsReturnFullRow ==
  (call # NoCall /\ call.fn \in {"generate_probabilistic_row", "generate_overdue_frequency_row"}
     /\ call.num_needed = NUMBERS_PER_ROW /\ pc # "call") =>
    /\ pc = "returned"
    /\ Len(ret) = NUMBERS_PER_ROW
    /\ NoRepeat(ret)
    /\ Range(ret) \subseteq 1..TOTAL_NUMBERS

\* generate_probabilistic_row has returned a row of seven after its 21
\* weighted draws gave between two and six distinct balls: the others were
\* drawn from the balls that were left.
C2_Witness ==
  /\ Returned("generate_probabilistic_row")
  /\ call.stats = Stats(NumFull, ColdTen, LeastTen)
  /\ call.num_needed = NUMBERS_PER_ROW
  /\ rng.at > 2 * 3 * NUMBERS_PER_ROW
  /\ Len(Distinct(ChoicesByCum(Rng(rng.stream), all_balls,
                                ProbabilisticCumWeights(call.stats),
                                3 * NUMBERS_PER_ROW).value)) \in 2..(NUMBERS_PER_ROW - 1)
  /\ Len(ret) = NUMBERS_PER_ROW

\* generate_output_rows has returned: main holds its result, before or after
\* the step that writes it.
RowsReturned == pc \in {"done", "written", "write_failed", "not_written"}

\* A step of a strategy 2..6 does not end the run, neither by a return nor
\* by an exception, keeps the rows accepted so far where they are, and
\* accepts rows of numbers_per_row numbers only.
StrategyStepKeepsRows ==
  pc \in {"row2", "row3", "row3_loop", "row3_fill", "row4", "row5", "row6"}
    => /\ pc' \notin {"done", "raised"}
       /\ Len(rows') >= Len(rows)
       /\ \A i \in 1..Len(rows) : rows'[i] = rows[i]
       /\ \A i \in (Len(rows) + 1)..Len(rows') : Len(rows'[i].nums) = numbers_per_row

\* C3: a row-1 result of the wrong size ends the run with an empty result
\* and no row of a later strategy; a wrong-size result of a strategy 2..6
\* leaves out that row only: the run goes on, the rows accepted so far stay
\* where they are, and every accepted row has an entry in the result.
C3_Row1FatalOthersSkip ==
  /\ []((pc \notin {"start", "row1"} /\ (strategies = <<>> \/ strategies[1] # 1))
          => (RowsReturned /\ ret = <<>> /\ rows = <<>>))
  /\ [][StrategyStepKeepsRows]_vars
  /\ []((RowsReturned /\ strategies # <<>>) => Len(ret) = Len(strategies))

\* What a step of the deduplication pass does to the rows.
DedupStepMarks ==
  pc = "dedup" =>
    /\ Len(rows') = Len(rows)
    /\ ret' = rows'
    /\ \A i \in 1..Len(rows) :
         IF \E j \in 1..(i - 1) : Range(rows[j].nums) = Range(rows[i].nums)
         THEN rows'[i] = Duplicate
         ELSE rows'[i] = rows[i]
    /\ \A i, j \in 1..Len(rows') :
         (i # j /\ ~rows'[i].duplicate /\ ~rows'[j].duplicate)
           => Range(rows'[i].nums) # Range(rows'[j].nums)

\* C4: the deduplication pass keeps the first row of every number set,
\* puts the marker at the index of every later one, leaves the length and
\* all other entries as they were, and leaves no two rows with the same
\* number set.
C4_DedupMarksLaterOccurrences == [][DedupStepMarks]_vars

C4_Witness ==
  /\ pc = "done"
  /\ \E i \in 1..Len(ret) : ret[i].duplicate
  /\ \E i \in 1..Len(ret) : ~ret[i].duplicate

(***************************************************************************)
(* The extractor.                                                          *)
(***************************************************************************)
\* C11: parse_table_data gives no record for a row whose ball number is no
\* integer, so that every record that has a ball has an integer one, and
\* a three-column row whose ball is an integer and whose count is none has
\* a record with that ball and the text of the count.
C11_BallFailureDropsRow ==
  Returned("parse_table_data") =>
    LET read == SelectSeq(table_rows(call.table_element),
                          LAMBDA cells : ~row_skipped(cells, call.expected_cols))
    IN /\ \A i \in 1..Len(ret) : "ball" \in ret[i].keys => IsInt(ret[i].ball)
       /\ \A k \in 1..Len(read) :
            LET balls == balls_of(read[k])
            IN (/\ call.expected_cols = 3
                /\ Len(balls) = 1
                /\ PyIntOk(balls[1])
                /\ ~PyIntOk(RemoveCommas(read[k][2].text))) =>
                 \E i \in 1..Len(ret) :
                   /\ "ball" \in ret[i].keys /\ ret[i].ball = IntV(PyInt(balls[1]))
                   /\ "drawn" \in ret[i].keys /\ ret[i].drawn = StrV(read[k][2].text)

\* C12 as stated: the result of parse_numerical_order has a record for every
\* ball 1..TOTAL_NUMBERS, whatever the document; a ball whose count is
\* missing or no integer has drawn = 0.
C12_FullPoolCoverage ==
  Returned("parse_numerical_order") =>
    /\ \A b \in 1..TOTAL_NUMBERS : \E i \in 1..Len(ret) : ret[i].ball = IntV(b)
    /\ \A i \in 1..Len(ret) : IsInt(ret[i].drawn)

\* C13 as stated: every ball of every record of the extractor lies in
\* 1..TOTAL_NUMBERS.
C13_BallsInPool ==
  /\ Returned("parse_numerical_order") =>
       \A i \in 1..Len(ret) : ret[i].ball.n \in 1..TOTAL_NUMBERS
  /\ Returned("parse_table_data") =>
       \A i \in 1..Len(ret) :
         /\ ("ball" \in ret[i].keys /\ IsInt(ret[i].ball)) => ret[i].ball.n \in 1..TOTAL_NUMBERS
         /\ \A k \in 1..Len(ret[i].balls) :
              IsInt(ret[i].balls[k]) => ret[i].balls[k].n \in 1..TOTAL_NUMBERS

(***************************************************************************)
(* Failures of the random draws.                                           *)
(***************************************************************************)
\* The weighted draw of row 3 is about to be made and raises.
C14_Row3DrawRaises ==
  /\ pc = "row3_loop"
  /\ Len(selected) < numbers_per_row
  /\ temp_cands # <<>>
  /\ ChoicesRaises(temp_cands, temp_weights)

\* The weighted draw of generate_overdue_frequency_row is made and raises:
\* the total of the weights is not above zero.
C14_Row2DrawRaises ==
  /\ pc = "row2"
  /\ ~(OverdueMapValues(stats.cold) = {} /\ FreqMapValues(stats.numerical) = {})
  /\ TotalRaises(Row2CumWeights(stats))

\* The fill of generate_probabilistic_row raises: more numbers are asked
\* for than the pool holds, so random.sample is asked for more balls than
\* are left.
C14_Row1FillRaises ==
  /\ pc = "row1"
  /\ stats.numerical # <<>>
  /\ numbers_per_row > TOTAL_NUMBERS

\* The balls no accepted row holds, in ascending order.
C14_Unused == SelectSeq(all_balls, LAMBDA n : n \notin used_numbers_global)

\* The step draws a uniform selection of k numbers: random.sample takes k
\* of all the balls, of the unused balls or of the candidates of row 3 from
\* the generator, and nums holds them.
C14_UniformSelection(nums, k) ==
  /\ rng' # rng
  /\ Len(nums) = k
  /\ \E population \in {all_balls, C14_Unused, row3_candidates} :
       /\ ~SampleRaises(population, k)
       /\ Range(nums) = Range(RandomSample(rng, population, k).value)
       /\ rng' = RandomSample(rng, population, k).rng

C14_Row1Step ==
  C14_Row1FillRaises =>
    /\ pc' = "row2"
    /\ Len(rows'[Len(rows')].nums) = numbers_per_row

C14_Row2Step ==
  C14_Row2DrawRaises =>
    /\ pc' = "row3"
    /\ C14_UniformSelection(rows'[Len(rows')].nums, numbers_per_row)

C14_Row3Step ==
  C14_Row3DrawRaises =>
    /\ pc' # "raised"
    /\ C14_UniformSelection(selected', numbers_per_row)

\* C14: a draw that raises in generate_probabilistic_row, in
\* generate_overdue_frequency_row or in the weighted sampling of row 3 is
\* caught where it is made, does not leave generate_output_rows, and the
\* result used in its place is a uniform random selection of the required
\* size.
C14_FailedDrawsReplaced ==
  /\ [][C14_Row1Step]_vars
  /\ [][C14_Row2Step]_vars
  /\ [][C14_Row3Step]_vars

(***************************************************************************)
(* The end of a run.                                                       *)
(***************************************************************************)
\* C15 as stated: a run of the main program that writes no output is a run
\* in which generate_output_rows returned no row at all (row 1 failed or the
\* frequency data are missing); with rows returned, output is produced.
C15_Original ==
  pc = "not_written" => ret = <<>>

\* C15: the main program writes output only when generate_output_rows
\* returned six entries, one of each strategy; when row 1 fails, when fewer
\* than numbers_per_row valid frequency records exist or when any of rows
\* 2..6 is skipped, nothing is written.
C15_OutputOnlyWithSixRows ==
  /\ pc \in {"written", "write_failed"} =>
       Len(ret) = 6 /\ strategies = <<1, 2, 3, 4, 5, 6>>
  /\ pc = "not_written" =>
       /\ Len(ret) < 6
       /\ \E k \in 1..6 : \A i \in 1..Len(strategies) : strategies[i] # k
  /\ (pc \in {"done", "written", "write_failed", "not_written"} /\ ret = <<>>) =>
       \/ Len(most_common_all) < numbers_per_row
       \/ rows = <<>>

\* Rows 1 to 4 and 6 were generated, row 5 was skipped, and the run ended
\* without writing output.
C15_Witness ==
  /\ pc = "not_written"
  /\ Len(ret) = 5
  /\ strategies = <<1, 2, 3, 4, 6>>

(***************************************************************************)
(* The "N day(s) ago" token.                                               *)
(***************************************************************************)
\* The texts C16 names, and a text without the token.
C16_Texts ==
  {StrV(T_12_days_ago), StrV(T_1_day_ago), StrV(T_12_Days_Ago), StrV(T_12_DAYS_AGO),
   StrV(T_yesterday)}

\* The integer before the token, whatever the case of its letters; the
\* sentinel of the call site for a text without the token.
C16_ExpectedDays(info, sentinel) ==
  CASE info = StrV(T_12_days_ago) -> 12
    [] info = StrV(T_1_day_ago) -> 1
    [] info = StrV(T_12_Days_Ago) -> 12
    [] info = StrV(T_12_DAYS_AGO) -> 12
    [] info = StrV(T_yesterday) -> sentinel

\* C16 as stated: both extract_days give the integer before "day(s) ago"
\* whatever the case of the letters, and their sentinel (9999, 0) for a text
\* without the token; so get_numbers_by_overdue lists a ball whose one
\* record says more days before a ball whose one record says fewer.
C16_CaseInsensitiveDays ==
  Returned("get_numbers_by_overdue") =>
    LET recs == call.recs
        One(x) == Cardinality(RecsOfBall(recs, x)) = 1
        InfoOf(x) == recs[CHOOSE i \in RecsOfBall(recs, x) : TRUE].last_drawn_info
    IN /\ \A i \in 1..Len(recs) :
            recs[i].last_drawn_info \in C16_Texts =>
              /\ overdue_extract_days(recs[i].last_drawn_info)
                   = C16_ExpectedDays(recs[i].last_drawn_info, 9999)
              /\ row2_extract_days(recs[i].last_drawn_info)
                   = C16_ExpectedDays(recs[i].last_drawn_info, 0)
       /\ \A x, y \in ColdBalls(recs) :
            (/\ One(x) /\ One(y)
             /\ InfoOf(x) \in C16_Texts /\ InfoOf(y) \in C16_Texts
             /\ C16_ExpectedDays(InfoOf(x), 9999) > C16_ExpectedDays(InfoOf(y), 9999)
             /\ y \in Range(ret)) =>
              (x \in Range(ret) /\ PosIn(ret, x) < PosIn(ret, y))

(***************************************************************************)
(* The positions of the rows returned.                                     *)
(***************************************************************************)
\* generate_output_rows has returned.
C17_Ended == pc \in {"done", "written", "write_failed", "not_written"}

\* C17 as stated: position i of the sequence returned holds the outcome of
\* strategy i.
C17_Original ==
  (C17_Ended /\ ret # <<>>) =>
    /\ Len(ret) <= 6
    /\ Len(strategies) = Len(ret)
    /\ \A i \in 1..Len(ret) : strategies[i] = i

\* C17: the sequence returned holds one entry, a row of numbers_per_row
\* numbers or "duplicate", for each strategy that produced a row, in the
\* order of the strategies and with row 1 first: at most 6 entries, none
\* standing for a skipped strategy, so that the entry at position i comes
\* from strategy i or a later one; the positions are those of the
\* strategies whenever the main program writes the rows.
C17_RowsInStrategyOrder ==
  C17_Ended =>
    /\ Len(ret) <= 6
    /\ ret # <<>> => (Len(strategies) = Len(ret) /\ strategies[1] = 1)
    /\ \A i \in 1..Len(strategies) : strategies[i] \in i..6
    /\ \A i, j \in 1..Len(strategies) : i < j => strategies[i] < strategies[j]
    /\ \A i \in 1..Len(ret) : ret[i].duplicate \/ Len(ret[i].nums) = numbers_per_row
    /\ pc \in {"written", "write_failed"} => strategies = <<1, 2, 3, 4, 5, 6>>

\* Row 3 was skipped: the rows of strategies 4, 5 and 6 are returned at
\* positions 3, 4 and 5.
C17_Witness ==
  /\ pc = "done"
  /\ Len(ret) = 5
  /\ strategies = <<1, 2, 4, 5, 6>>

(***************************************************************************)
(* The size of a combination.                                              *)
(***************************************************************************)
\* C18: select_unique_combination returns exactly min(total, number of
\* distinct values of the two lists) values, each once: a number that is
\* already chosen is passed over without ending a scan, and the result is
\* shorter than total only when the two lists hold fewer distinct values.
C18_CombinationExactSize ==
  Returned("select_unique_combination") =>
    LET values == Range(call.list1) \cup Range(call.list2)
    IN /\ Len(ret) = Min(call.total_needed, Cardinality(values))
       /\ NoRepeat(ret)
       /\ Range(ret) \subseteq values
       /\ Len(ret) < call.total_needed => Range(ret) = values

\* Nothing is taken at first; the fill passes over the second 1 of the first
\* list and the 1 of the second list and reaches 2.
C18_Witness ==
  /\ Returned("select_unique_combination")
  /\ call.list1 = <<1, 1>> /\ call.count1 = 0
  /\ call.list2 = <<1, 2>> /\ call.count2 = 0
  /\ call.total_needed = 2
  /\ Range(ret) = {1, 2}

(***************************************************************************)
(* The weights of generate_probabilistic_row.                              *)
(***************************************************************************)
\* drawn(b): the count of the last record of ball b whose ball and count are
\* integers, 0 when there is none.
C19_Drawn(numerical_data, b) ==
  LET valid == {i \in 1..Len(numerical_data) :
                  numerical_data[i].ball = IntV(b) /\ IsInt(numerical_data[i].drawn)}
  IN IF valid = {} THEN 0
     ELSE numerical_data[CHOOSE i \in valid : \A k \in valid : k <= i].drawn.n

\* C19: in tenths, the weight of every ball b is
\* max(1, 10 + 5 * drawn(b) + 100 if b is among the ten most overdue balls),
\* so every weight and their total are above zero, also for counts below
\* zero, and with frequency records the weighted draw is made and does not
\* raise: only an empty 'numerical' list leads to the uniform selection.
C19_WeightsPositive ==
  (pc \in {"returned", "raised"} /\ call.fn = "generate_probabilistic_row") =>
    LET numerical_data == call.stats.numerical
        top_overdue == get_numbers_by_overdue(call.stats.cold, NUM_OVERDUE_CONSIDERED)
        weights == [b \in 1..TOTAL_NUMBERS |->
                      IntV(probabilistic_weight(numerical_data, top_overdue, b))]
    IN /\ \A b \in 1..TOTAL_NUMBERS :
            /\ weights[b].n = Max(1, 10 + 5 * C19_Drawn(numerical_data, b)
                                     + (IF b \in Range(top_overdue) THEN 100 ELSE 0))
            /\ weights[b].n > 0
       /\ SumInts(weights) > 0
       /\ ~ChoicesRaises(all_balls, weights)
       /\ Len(top_overdue) <= NUM_OVERDUE_CONSIDERED
       /\ (numerical_data # <<>> /\ call.num_needed <= TOTAL_NUMBERS) => pc = "returned"

\* A row of seven was returned for counts below zero: ball 2, drawn -100 and
\* not overdue, has the weight 0.1, and ball 30, overdue, has more.
C19_Witness ==
  /\ Returned("generate_probabilistic_row")
  /\ call.stats = Stats(NumNeg, ColdTen, LeastTen)
  /\ call.num_needed = NUMBERS_PER_ROW
  /\ Len(ret) = NUMBERS_PER_ROW
  /\ probabilistic_weight(NumNeg, get_numbers_by_overdue(ColdTen, NUM_OVERDUE_CONSIDERED), 2) = 1
  /\ probabilistic_weight(NumNeg, get_numbers_by_overdue(ColdTen, NUM_OVERDUE_CONSIDERED), 1) = 35

(***************************************************************************)
(* The numbers of row 3.                                                   *)
(***************************************************************************)
\* The numbers of the entry of rows that strategy k appended, if any.
C20_NumbersOf(k) ==
  UNION {Range(rows[i].nums) : i \in {j \in 1..Len(rows) : strategies[j] = k}}

\* C20: an accepted row 3 shares no number with the accepted rows 1 and 2,
\* however it was built.
C20_Row3Disjoint ==
  /\ Len(strategies) = Len(rows)
  /\ C20_NumbersOf(3) \cap (C20_NumbersOf(1) \cup C20_NumbersOf(2)) = {}
  /\ pc \in {"row3_loop", "row3_fill"} => Range(selected) \cap used_numbers_global = {}
  /\ pc \in {"row3", "row3_loop", "row3_fill"} =>
       used_numbers_global = C20_NumbersOf(1) \cup C20_NumbersOf(2)

\* All six rows were generated: row 3, completed by the uniform fill, shares
\* no number with rows 1 and 2, and each of rows 4, 5 and 6 holds a number
\* of an earlier row.
C20_Witness ==
  /\ pc = "dedup"
  /\ strategies = <<1, 2, 3, 4, 5, 6>>
  /\ Len(row3_candidates) < numbers_per_row
  /\ C20_NumbersOf(3) # {}
  /\ C20_NumbersOf(3) \cap (C20_NumbersOf(1) \cup C20_NumbersOf(2)) = {}
  /\ \A k \in 4..6 : \E e \in 1..(k - 1) : C20_NumbersOf(k) \cap C20_NumbersOf(e) # {}

(***************************************************************************)
(* The sampling loop of row 3.                                             *)
(***************************************************************************)
\* The entries of list that hold x.
C21_Count(list, x) == Cardinality({i \in 1..Len(list) : list[i] = x})

\* The passes the loop of line 663 can still make, at most.
C21_PassesLeft == Min(numbers_per_row - Len(selected), Len(temp_cands))

\* While the loop of lines 663-668 runs: the two lists have the same length,
\* every weight is the weight of the candidate at its position, the passes
\* made are at most min(numbers_per_row, number of candidates), and every
\* entry of row3_candidates is either selected or still a candidate.
C21_LoopState ==
  pc = "row3_loop" =>
    /\ Len(temp_weights) = Len(temp_cands)
    /\ \A i \in 1..Len(temp_cands) :
         temp_weights[i] = Row3FreqMapGet(stats.numerical, temp_cands[i])
    /\ Len(selected) + Len(temp_cands) = Len(row3_candidates)
    /\ Len(selected) <= Min(numbers_per_row, Len(row3_candidates))
    /\ C21_PassesLeft >= 0
    /\ \A x \in Range(row3_candidates) \cup Range(selected) \cup Range(temp_cands) :
         C21_Count(selected, x) + C21_Count(temp_cands, x) = C21_Count(row3_candidates, x)

\* A pass of the loop takes one entry out of the candidates, with the weight
\* at the same position, appends it to the selection, and leaves fewer
\* passes to make.
C21_LoopStep ==
  (pc = "row3_loop" /\ pc' = "row3_loop") =>
    /\ row3_candidates' = row3_candidates
    /\ \E idx \in 1..Len(temp_cands) :
         /\ selected' = Append(selected, temp_cands[idx])
         /\ temp_cands' = Pop(temp_cands, idx)
         /\ temp_weights' = Pop(temp_weights, idx)
    /\ C21_PassesLeft' < C21_PassesLeft

\* C21: the weighted sampling of row 3 is a bounded loop that removes the
\* drawn candidate with its own weight, keeps the two lists of equal length
\* and aligned, makes at most min(numbers_per_row, number of candidates)
\* passes and selects no entry twice.
C21_BoundedSampling == [](C21_LoopState) /\ [][C21_LoopStep]_vars

\* The loop has made numbers_per_row passes, the first candidate drawn was
\* not one of the first twenty of the list, a later draw took a candidate
\* that stands before it, and candidates of different weights are left.
C21_Witness ==
  /\ pc = "row3_loop"
  /\ Len(selected) = numbers_per_row
  /\ Len(row3_candidates) > 20
  /\ \A i \in 1..20 : selected[1] # row3_candidates[i]
  /\ \E k \in 2..numbers_per_row : \E i \in 1..20 : selected[k] = row3_candidates[i]
  /\ \E i, j \in 1..Len(temp_cands) : temp_weights[i] # temp_weights[j]

(***************************************************************************)
(* Row 6.                                                                  *)
(***************************************************************************)
\* The first N_extremes numbers of a list, as a set.
C22_Top(list) == {list[i] : i \in 1..Min(N_extremes, Len(list))}

\* The balls row 6 avoids when it can.
C22_Excluded ==
  C22_Top(most_common_all) \cup C22_Top(least_common_all) \cup C22_Top(most_overdue_all)

\* The balls of the pool that are not excluded.
C22_Middle == (1..TOTAL_NUMBERS) \ C22_Excluded

\* The numbers of the last row generated.
C22_LastRow == rows[Len(rows)].nums

\* The row of strategy 6 is the last row: numbers_per_row different balls of
\* the pool, none of them excluded when the pool holds numbers_per_row balls
\* that are not; and a result that is not empty ends with the entry of
\* strategy 6, a row or the duplicate marker.
C22_Row6Row ==
  /\ pc = "dedup" =>
       /\ rows # <<>>
       /\ Len(strategies) = Len(rows)
       /\ strategies[Len(strategies)] = 6
       /\ C20_NumbersOf(6) = Range(C22_LastRow)
       /\ Len(C22_LastRow) = numbers_per_row
       /\ Cardinality(Range(C22_LastRow)) = numbers_per_row
       /\ Range(C22_LastRow) \subseteq 1..TOTAL_NUMBERS
       /\ Cardinality(C22_Middle) >= numbers_per_row
            => Range(C22_LastRow) \cap C22_Excluded = {}
  /\ (RowsReturned /\ ret # <<>>) =>
       /\ Len(ret) = Len(strategies)
       /\ strategies[Len(strategies)] = 6
       /\ ret[Len(ret)] \in {Duplicate, rows[Len(rows)]}
       /\ \A i \in 1..(Len(strategies) - 1) : strategies[i] # 6

\* Strategy 6, once reached, appends its row and hands over to the
\* deduplication.
C22_Row6Step ==
  pc = "row6" =>
    /\ pc' = "dedup"
    /\ strategies' = Append(strategies, 6)
    /\ Len(rows') = Len(rows) + 1

\* C22: whenever generate_output_rows gets past row 1, strategy 6 contributes
\* a row, the last one of the result: drawn from the balls outside the three
\* top lists when there are numbers_per_row of them, from the whole pool
\* otherwise.
C22_Row6AlwaysContributes == [](C22_Row6Row) /\ [][C22_Row6Step]_vars

====
